---- MODULE Spec2Model ----
(***************************************************************************)
(* Governance engine of the multi-tenant template: the triage engine       *)
(* (evaluateExpression, evaluateLaw, composeActions), the span utilities,  *)
(* the Midnight Ruler scheduler, the law parser, the metrics collector and *)
(* the auth middleware.                                                    *)
(*                                                                         *)
(* Specifications:                                                         *)
(*   SpecEval     evaluateLaw applied to a law and a context               *)
(*   SpecCompose  composeActions applied to a map layer -> action list     *)
(*   Spec         one MidnightRuler instance: start(), stop(), the timers  *)
(*                it arms, and the runs those timers start, interleaved at *)
(*                every await of a run                                     *)
(*   SpecClock    the same instance against the wall clock: the wait that  *)
(*                scheduleNextRun computes with getNextMidnight, for a     *)
(*                configured zone and a host zone, as time passes          *)
(*   SpecSpan     processSpan applied to one fetched span: validation,     *)
(*                law selection, context, evaluation                       *)
(*   SpecParse    parseLawFile applied to a law text                       *)
(*   SpecMetrics  GovernanceMetrics collectors receiving updates           *)
(*   SpecAuth     the auth middleware applied to a request                 *)
(***************************************************************************)
EXTENDS Integers, Sequences, FiniteSets, TLC

VARIABLES
    \* ---- evaluateLaw call (SpecEval)
    law,            \* the LawDefinition passed to evaluateLaw
    ctx,            \* the EvaluationContext passed to evaluateLaw
    triageResult,   \* what evaluateLaw returned (NoResult before the call)
    \* ---- composeActions call (SpecCompose)
    actionsByLayer, \* the Map<PolicyLayer, LawAction[]> passed to composeActions
    composed,       \* what composeActions returned (<<>> before the call)
    \* ---- MidnightRuler instance (Spec)
    running,        \* this.running
    schedulerId,    \* this.schedulerId: a timer id, or NoTimer for null
    timers,         \* timer ids armed by setTimeout and neither fired nor cleared
    runs,           \* timer callbacks that have fired: run id -> its position
    nextUuid,       \* generateUUID(): every call returns a value never returned before
    ledger,         \* storage behind appendToLedger: the events appended, in order
    decisionStore,  \* storage behind storeDecisionSpan: the spans stored, in order
    faults,         \* storage calls that have rejected so far
    op,             \* the operation that took the last step (observation only)
    \* ---- the instance against the wall clock (SpecClock)
    timezone,       \* this.config.timezone: the zone whose midnight is meant
    hostZone,       \* the zone of the host process (TZ of the runtime)
    clockNow,       \* the wall clock: what `new Date()` returns, in hours
    armedFor,       \* the armed timers: when each was armed and when it is due
    startedAt,      \* the instants at which runs started, in order
    clockPc,        \* "off", "idle", "waiting" (timer armed) or "running"
    \* ---- processSpan applied to one fetched span (SpecSpan)
    spanIn,         \* the span processSpan is given
    configLaws,     \* this.config.laws
    runTime,        \* the instant of the midnight run that processes the span
    processed,      \* what processSpan did with the span, up to its first await
    \* ---- parseLawFile call (SpecParse)
    lawText,        \* the law text, one element a line
    parsed,         \* what parseLawFile returned or threw
    \* ---- GovernanceMetrics collectors (SpecMetrics)
    metrics,        \* a collector: its counters, gauges and histograms maps
    mirror,         \* a second collector that receives the same updates, each
                    \* pair of consecutive updates in the opposite order
    held,           \* the update the second collector has not applied yet
    issued,         \* the updates issued so far, in order
    \* ---- middleware call (SpecAuth)
    request,        \* the NextRequest, and what the validation endpoint answers
    response        \* what middleware returned

triageVars   == <<law, ctx, triageResult>>
composeVars  == <<actionsByLayer, composed>>
rulerVars    == <<running, schedulerId, timers, runs, nextUuid,
                  ledger, decisionStore, faults, op>>
clockVars    == <<timezone, hostZone, clockNow, armedFor, startedAt, clockPc>>
spanVars     == <<spanIn, configLaws, runTime, processed>>
parseVars    == <<lawText, parsed>>
metricsVars  == <<metrics, mirror, held, issued>>
authVars     == <<request, response>>
utilVars     == <<spanVars, parseVars, metricsVars, authVars>>
coreVars     == <<triageVars, composeVars, rulerVars, clockVars>>
vars         == <<law, ctx, triageResult, actionsByLayer, composed,
                  running, schedulerId, timers, runs, nextUuid,
                  ledger, decisionStore, faults, op,
                  timezone, hostZone, clockNow, armedFor, startedAt, clockPc,
                  spanIn, configLaws, runTime, processed, lawText, parsed,
                  metrics, mirror, held, issued, request, response>>

(***************************************************************************)
(* JavaScript values that reach the expression evaluator.                  *)
(***************************************************************************)
Null      == [t |-> "null"]
Undefined == [t |-> "undefined"]
Bool(b)   == [t |-> "bool", b |-> b]
Num(n)    == [t |-> "num", n |-> n]
Thrown    == [t |-> "throw"]     \* the evaluation raised an exception

\* JavaScript truthiness (the `if (...)` of evaluateLaw, `&&`, `||`, `!`).
Truthy(v) ==
    CASE v.t = "bool" -> v.b
      [] v.t = "num"  -> v.n # 0
      [] OTHER        -> FALSE

\* ToNumber for the relational operators: null -> 0, true -> 1, false -> 0.
ToNumber(v) ==
    CASE v.t = "num"  -> v.n
      [] v.t = "bool" -> IF v.b THEN 1 ELSE 0
      [] OTHER        -> 0

\* a == b of JavaScript (loose equality) on null, booleans and numbers:
\* null equals only null; a boolean is converted to a number first.
LooseEq(a, b) ==
    IF a.t = "null" \/ b.t = "null"
    THEN a.t = "null" /\ b.t = "null"
    ELSE ToNumber(a) = ToNumber(b)

\* a rel b of JavaScript for the relational operators (operands ToNumber-ed).
Relational(rel, a, b) ==
    CASE rel = ">=" -> ToNumber(a) >= ToNumber(b)
      [] rel = "<=" -> ToNumber(a) <= ToNumber(b)
      [] rel = ">"  -> ToNumber(a) > ToNumber(b)
      [] rel = "<"  -> ToNumber(a) < ToNumber(b)

(***************************************************************************)
(* Condition expressions.  A condition string of a law is carried as the   *)
(* tree JavaScript parses it to after evaluateExpression has substituted   *)
(* the variables and rewritten NOT/AND/OR to !/&&/||:                      *)
(*   [op |-> "lit", val]         a literal                                 *)
(*   [op |-> "var", name]        a name of the variable namespace          *)
(*   [op |-> "not", a]           NOT a                                     *)
(*   [op |-> "and"/"or", a, b]   a AND b, a OR b                           *)
(*   [op |-> "eq", a, b]         a == b                                    *)
(*   [op |-> "rel", rel, a, b]   a >= b, a < b, ...                        *)
(*   [op |-> "malformed"]        text that is no expression (also "")      *)
(***************************************************************************)
Lit(v)        == [op |-> "lit", val |-> v]
Var(name)     == [op |-> "var", name |-> name]
Not(a)        == [op |-> "not", a |-> a]
And(a, b)     == [op |-> "and", a |-> a, b |-> b]
Or(a, b)      == [op |-> "or", a |-> a, b |-> b]
Eq(a, b)      == [op |-> "eq", a |-> a, b |-> b]
Rel(rel, a, b) == [op |-> "rel", rel |-> rel, a |-> a, b |-> b]
Malformed     == [op |-> "malformed"]

\* The variable context evaluateExpression builds from ctx. Instants are
\* numbers (what getTime returns); a value that is no timestamp gives NaN,
\* which JSON.stringify writes as null.
Variables(c) ==
    [now |-> IF c.now.t = "num" THEN c.now ELSE Null,
     deadline_at |-> IF c.resource.deadline_at.t = "num"
                     THEN c.resource.deadline_at ELSE Null,
     accepted |-> IF c.resource.accepted.t = "undefined"
                  THEN Null ELSE c.resource.accepted,
     approvals_count |-> Num(Len(c.resource.approvals)),
     quorum |-> Num(c.tenant.quorum),
     evidence_missing |-> IF c.resource.evidence_missing.t = "undefined"
                          THEN Null ELSE c.resource.evidence_missing]

\* The value of the substituted expression; Thrown when `new Function` or the
\* call throws (a syntax error, a name that is no variable of the namespace).
RECURSIVE EvalJs(_, _)
EvalJs(e, variables) ==
    CASE e.op = "lit" -> e.val
      [] e.op = "var" ->
            IF e.name \in DOMAIN variables THEN variables[e.name] ELSE Thrown
      [] e.op = "not" ->
            LET a == EvalJs(e.a, variables)
            IN  IF a.t = "throw" THEN Thrown ELSE Bool(~Truthy(a))
      [] e.op = "and" ->
            LET a == EvalJs(e.a, variables)
            IN  IF a.t = "throw" THEN Thrown
                ELSE IF ~Truthy(a) THEN a ELSE EvalJs(e.b, variables)
      [] e.op = "or" ->
            LET a == EvalJs(e.a, variables)
            IN  IF a.t = "throw" THEN Thrown
                ELSE IF Truthy(a) THEN a ELSE EvalJs(e.b, variables)
      [] e.op = "eq" ->
            LET a == EvalJs(e.a, variables)
                b == EvalJs(e.b, variables)
            IN  IF a.t = "throw" \/ b.t = "throw" THEN Thrown
                ELSE Bool(LooseEq(a, b))
      [] e.op = "rel" ->
            LET a == EvalJs(e.a, variables)
                b == EvalJs(e.b, variables)
            IN  IF a.t = "throw" \/ b.t = "throw" THEN Thrown
                ELSE Bool(Relational(e.rel, a, b))
      [] OTHER -> Thrown

\* An evaluation without the try/catch: the exception leaves the function.
evaluateExpressionUncaught(expr, c) == EvalJs(expr, Variables(c))

\* evaluateExpression: the value of the expression, false when it throws.
evaluateExpression(expr, c) ==
    LET v == EvalJs(expr, Variables(c))
    IN  IF v.t = "throw" THEN Bool(FALSE) ELSE v

(***************************************************************************)
(* Law actions and laws.                                                   *)
(***************************************************************************)
Accept          == [type |-> "accept"]
Hold(h)         == [type |-> "hold", hours |-> h]
Terminate(r)    == [type |-> "terminate", reason |-> r]
Notify(role)    == [type |-> "notify", role |-> role]
Tag(k, v)       == [type |-> "tag", key |-> k, val |-> v]
AppendLedger    == [type |-> "append_ledger"]
Emit(e)         == [type |-> "emit", event |-> e]

\* The built-in action list of evaluateLaw when no condition matched.
FailClosedHours == 24
FailClosedActions == <<Hold(FailClosedHours), Notify("ops"), AppendLedger>>

\* evaluateLaw with the doubt block tried before the ok block.
evaluateLawDoubtFirst(l, c) ==
    IF Truthy(evaluateExpression(l.triage.doubt.condition, c))
    THEN [triage |-> "doubt", actions |-> l.triage.doubt.actions]
    ELSE IF Truthy(evaluateExpression(l.triage.ok.condition, c))
    THEN [triage |-> "ok", actions |-> l.triage.ok.actions]
    ELSE IF Truthy(evaluateExpression(l.triage["not"].condition, c))
    THEN [triage |-> "not", actions |-> l.triage["not"].actions]
    ELSE [triage |-> "doubt", actions |-> FailClosedActions]

\* evaluateLaw that returns null when no condition matched.
evaluateLawNoDefault(l, c) ==
    IF Truthy(evaluateExpression(l.triage.ok.condition, c))
    THEN [triage |-> "ok", actions |-> l.triage.ok.actions]
    ELSE IF Truthy(evaluateExpression(l.triage.doubt.condition, c))
    THEN [triage |-> "doubt", actions |-> l.triage.doubt.actions]
    ELSE IF Truthy(evaluateExpression(l.triage["not"].condition, c))
    THEN [triage |-> "not", actions |-> l.triage["not"].actions]
    ELSE [triage |-> "null", actions |-> <<>>]

\* evaluateLaw has no try/catch of its own: an exception that leaves one of
\* the evaluateExpression calls it makes leaves evaluateLaw too.
Raises(l, c) ==
    LET ok    == evaluateExpression(l.triage.ok.condition, c)
        doubt == evaluateExpression(l.triage.doubt.condition, c)
        not   == evaluateExpression(l.triage["not"].condition, c)
    IN  \/ ok.t = "throw"
        \/ ~Truthy(ok) /\ doubt.t = "throw"
        \/ ~Truthy(ok) /\ ~Truthy(doubt) /\ not.t = "throw"

evaluateLaw(l, c) ==
    IF Raises(l, c)
    THEN [triage |-> "throw", actions |-> <<>>]
    ELSE IF Truthy(evaluateExpression(l.triage.ok.condition, c))
    THEN [triage |-> "ok", actions |-> l.triage.ok.actions]
    ELSE IF Truthy(evaluateExpression(l.triage.doubt.condition, c))
    THEN [triage |-> "doubt", actions |-> l.triage.doubt.actions]
    ELSE IF Truthy(evaluateExpression(l.triage["not"].condition, c))
    THEN [triage |-> "not", actions |-> l.triage["not"].actions]
    ELSE [triage |-> "doubt", actions |-> FailClosedActions]

(***************************************************************************)
(* composeActions                                                          *)
(***************************************************************************)
PolicyLayer == {"constitution", "superior", "app_regulatory", "tenant", "user"}

layerOrder == <<"constitution", "superior", "app_regulatory", "tenant", "user">>

\* layerOrder with the lowest layer first.
layerOrderLowFirst ==
    <<"user", "tenant", "app_regulatory", "superior", "constitution">>

NoAction == [type |-> "none"]       \* null / undefined of `find`

\* actionsByLayer.get(layer) || []
LayerActions(m, layer) == IF layer \in DOMAIN m THEN m[layer] ELSE <<>>

\* actions.find((a) => a.type === type)
Find(actions, type) ==
    LET hits == {i \in 1..Len(actions) : actions[i].type = type}
    IN  IF hits = {} THEN NoAction
        ELSE actions[CHOOSE i \in hits : \A j \in hits : i <= j]

\* The first loop of composeActions over layers order[n..]: stateTransition
\* once set is kept; an unset one takes the layer's terminate, else its accept,
\* else its hold.
RECURSIVE SelectTransition(_, _, _, _)
SelectTransition(m, order, n, stateTransition) ==
    IF n > Len(order) THEN stateTransition
    ELSE LET actions   == LayerActions(m, order[n])
             terminate == Find(actions, "terminate")
             accept    == Find(actions, "accept")
             hold      == Find(actions, "hold")
             next == IF stateTransition # NoAction THEN stateTransition
                     ELSE IF terminate # NoAction THEN terminate
                     ELSE IF accept # NoAction THEN accept
                     ELSE hold
         IN  SelectTransition(m, order, n + 1, next)

\* Every layer's actions, layer after layer in layerOrder.
RECURSIVE AllActions(_, _)
AllActions(m, n) ==
    IF n > Len(layerOrder) THEN <<>>
    ELSE LayerActions(m, layerOrder[n]) \o AllActions(m, n + 1)

\* A collection in which a later tag overwrites the value of its key.
RECURSIVE CollectTagsOverwriting(_, _, _)
CollectTagsOverwriting(actions, n, tags) ==
    IF n > Len(actions) THEN tags
    ELSE LET a == actions[n]
         IN  IF a.type # "tag"
             THEN CollectTagsOverwriting(actions, n + 1, tags)
             ELSE IF \E i \in 1..Len(tags) : tags[i].key = a.key
             THEN CollectTagsOverwriting(actions, n + 1,
                      [i \in 1..Len(tags) |->
                          IF tags[i].key = a.key THEN Tag(a.key, a.val) ELSE tags[i]])
             ELSE CollectTagsOverwriting(actions, n + 1, Append(tags, Tag(a.key, a.val)))

\* tags: a Map key -> val in insertion order; a key already present is kept.
RECURSIVE CollectTags(_, _, _)
CollectTags(actions, n, tags) ==
    IF n > Len(actions) THEN tags
    ELSE LET a == actions[n]
         IN  IF a.type = "tag" /\ ~\E i \in 1..Len(tags) : tags[i].key = a.key
             THEN CollectTags(actions, n + 1, Append(tags, Tag(a.key, a.val)))
             ELSE CollectTags(actions, n + 1, tags)

\* notifyRoles: a Set in insertion order.
RECURSIVE CollectNotify(_, _, _)
CollectNotify(actions, n, roles) ==
    IF n > Len(actions) THEN roles
    ELSE LET a == actions[n]
         IN  IF a.type = "notify" /\ ~\E i \in 1..Len(roles) : roles[i].role = a.role
             THEN CollectNotify(actions, n + 1, Append(roles, Notify(a.role)))
             ELSE CollectNotify(actions, n + 1, roles)

\* emitEvents: a Set in insertion order.
RECURSIVE CollectEmit(_, _, _)
CollectEmit(actions, n, events) ==
    IF n > Len(actions) THEN events
    ELSE LET a == actions[n]
         IN  IF a.type = "emit" /\ ~\E i \in 1..Len(events) : events[i].event = a.event
             THEN CollectEmit(actions, n + 1, Append(events, Emit(a.event)))
             ELSE CollectEmit(actions, n + 1, events)

\* A selection that scans the layers lowest first.
StateTransitionLowFirst(m) ==
    LET st == SelectTransition(m, layerOrderLowFirst, 1, NoAction)
    IN  IF st # NoAction THEN <<st>> ELSE <<>>

\* The state transition composeActions pushes first (none: the empty list).
StateTransition(m) ==
    LET st == SelectTransition(m, layerOrder, 1, NoAction)
    IN  IF st # NoAction THEN <<st>> ELSE <<>>

\* A tail that pushes append_ledger only when no layer asked for it, and
\* passes the layers' own append_ledger actions on.
AuditTailAsProposed(m) ==
    LET asked == SelectSeq(AllActions(m, 1), LAMBDA a : a.type = "append_ledger")
    IN  IF asked = <<>> THEN <<AppendLedger>> ELSE asked

\* composed.push({ type: "append_ledger" })
AuditTail(m) == <<AppendLedger>>

composeActions(m) ==
    LET all == AllActions(m, 1)
    IN  StateTransition(m)
        \o CollectTags(all, 1, <<>>)
        \o CollectNotify(all, 1, <<>>)
        \o CollectEmit(all, 1, <<>>)
        \o AuditTail(m)

(***************************************************************************)
(* Initial values of the parts a specification does not exercise.          *)
(***************************************************************************)
NoTimer   == 0
NoResult  == [triage |-> "pending", actions |-> <<>>]
NoLaw     == [id |-> "none"]
NoCtx     == [now |-> Undefined]

\* A zone of the tz database: its UTC offset in hours, and the instant (if
\* any) from which its daylight-saving offset applies.
Zone(name, std, dstFrom, dst) == [name |-> name, std |-> std, dstFrom |-> dstFrom, dst |-> dst]
UTC == Zone("UTC", 0, <<>>, 0)

ClockIdle ==
    /\ timezone = UTC
    /\ hostZone = UTC
    /\ clockNow = 0
    /\ armedFor = {}
    /\ startedAt = <<>>
    /\ clockPc = "off"

NoSpan      == [id |-> ""]
NoOutcome   == [status |-> "none"]
NoParse     == [status |-> "none"]
NoUpdate    == [op |-> "none"]
NoRequest   == [pathname |-> ""]
NoResponse  == [kind |-> "none"]
EmptyCollector == [counters |-> <<>>, gauges |-> <<>>, histograms |-> <<>>]

SpanIdle ==
    /\ spanIn = NoSpan
    /\ configLaws = <<>>
    /\ runTime = 0
    /\ processed = NoOutcome
ParseIdle   == lawText = <<>> /\ parsed = NoParse
MetricsIdle ==
    /\ metrics = EmptyCollector
    /\ mirror = EmptyCollector
    /\ held = NoUpdate
    /\ issued = <<>>
AuthIdle    == request = NoRequest /\ response = NoResponse
UtilIdle    == SpanIdle /\ ParseIdle /\ MetricsIdle /\ AuthIdle

TriageIdle  == law = NoLaw /\ ctx = NoCtx /\ triageResult = NoResult
ComposeIdle == actionsByLayer = <<>> /\ composed = <<>>
RulerIdle ==
    /\ running = FALSE
    /\ schedulerId = NoTimer
    /\ timers = {}
    /\ runs = <<>>
    /\ nextUuid = 1
    /\ ledger = <<>>
    /\ decisionStore = <<>>
    /\ faults = 0
    /\ op = "init"

(***************************************************************************)
(* SpecEval: evaluateLaw on every law and context of the bounded sets.     *)
(***************************************************************************)
\* The conditions of law midnight_deadline:1.0.0 as JavaScript parses them.
OkCondition ==
    Or(Eq(Var("accepted"), Lit(Bool(TRUE))),
       Rel(">=", Var("approvals_count"), Var("quorum")))
\* The doubt condition without its evidence.missing test.
DoubtConditionNoEvidence ==
    And(Rel(">=", Var("now"), Var("deadline_at")),
        Eq(Var("accepted"), Lit(Bool(FALSE))))

DoubtCondition ==
    And(And(Rel(">=", Var("now"), Var("deadline_at")),
            Eq(Var("accepted"), Lit(Bool(FALSE)))),
        Eq(Var("evidence_missing"), Lit(Bool(TRUE))))
NotCondition ==
    And(Rel(">=", Var("now"), Var("deadline_at")),
        Eq(Var("accepted"), Lit(Bool(FALSE))))

OkActions    == <<Accept, Tag("status", "accepted"), AppendLedger>>
DoubtActions == <<Hold(24), Notify("ops"), Tag("status", "under_review"), AppendLedger>>
NotActions   == <<Terminate("deadline_passed"), Tag("status", "terminated"), AppendLedger>>

\* Conditions a law may carry: the three above, a constant, an empty or
\* malformed text, and a name outside the variable namespace.
Conditions ==
    {OkCondition, DoubtCondition, NotCondition, Lit(Bool(TRUE)), Malformed,
     Var("user_settings_grace")}

Block(condition, actions) == [condition |-> condition, actions |-> actions]

LawDefinition(id, scope, ok, doubt, not) ==
    [id |-> id, scope |-> scope,
     triage |-> [ok |-> ok, doubt |-> doubt, not |-> not]]

MakeLaw(id, okC, doubtC, notC) ==
    LawDefinition(id, "deliverable", Block(okC, OkActions),
                  Block(doubtC, DoubtActions), Block(notC, NotActions))

Laws ==
    {MakeLaw("law:1.0.0", o, d, n) : o \in Conditions, d \in Conditions, n \in Conditions}

\* The law of the README.
MidnightDeadlineLaw ==
    MakeLaw("midnight_deadline:1.0.0", OkCondition, DoubtCondition, NotCondition)

Quorum   == 2      \* tenant quorum of the bounded contexts
Deadline == 10     \* the deadline instant T of the bounded contexts

Resources ==
    [type : {"deliverable"}, id : {"D001"},
     deadline_at : {Undefined, Num(Deadline)},
     accepted : {Undefined, Bool(TRUE), Bool(FALSE)},
     approvals : {<<>>, [i \in 1..Quorum |-> "approver"]},
     evidence_missing : {Undefined, Bool(TRUE), Bool(FALSE)}]

Contexts ==
    [now : {Num(Deadline - 1), Num(Deadline + 1)},
     tenant : {[id |-> "voulezvous", quorum |-> Quorum, timezone |-> "Europe/Paris"]},
     resource : Resources,
     span : {[id |-> "span:1", trace_id |-> "trace_1"]}]

InitEval ==
    /\ law \in Laws
    /\ ctx \in Contexts
    /\ triageResult = NoResult
    /\ ComposeIdle
    /\ RulerIdle
    /\ ClockIdle
    /\ UtilIdle

EvaluateLawCall ==
    /\ triageResult = NoResult
    /\ triageResult' = evaluateLaw(law, ctx)
    /\ UNCHANGED <<law, ctx, composeVars, rulerVars, clockVars, utilVars>>

NextEval == EvaluateLawCall

SpecEval == InitEval /\ [][NextEval]_vars

(***************************************************************************)
(* SpecCompose: a map layer -> action list is built action by action, then *)
(* composeActions is applied to it.                                        *)
(***************************************************************************)
MaxActions == 3    \* actions in a map passed to composeActions

ComposeAlphabet ==
    {Terminate("deadline_passed"), Accept, Hold(24),
     Tag("status", "accepted"), Tag("status", "under_review"),
     Notify("ops"), Emit("deliverable.reviewed"), AppendLedger}

RECURSIVE CountActions(_, _)
CountActions(m, n) ==
    IF n > Len(layerOrder) THEN 0
    ELSE Len(LayerActions(m, layerOrder[n])) + CountActions(m, n + 1)

InitCompose ==
    /\ actionsByLayer = <<>>
    /\ composed = <<>>
    /\ TriageIdle
    /\ RulerIdle
    /\ ClockIdle
    /\ UtilIdle

\* The caller puts one more action on a layer's list.
ProposeAction ==
    /\ composed = <<>>
    /\ CountActions(actionsByLayer, 1) < MaxActions
    /\ \E layer \in PolicyLayer, a \in ComposeAlphabet :
          actionsByLayer' =
              [l \in DOMAIN actionsByLayer \cup {layer} |->
                  IF l = layer THEN Append(LayerActions(actionsByLayer, l), a)
                  ELSE actionsByLayer[l]]
    /\ UNCHANGED <<composed, triageVars, rulerVars, clockVars, utilVars>>

ComposeActionsCall ==
    /\ composed = <<>>
    /\ composed' = composeActions(actionsByLayer)
    /\ UNCHANGED <<actionsByLayer, triageVars, rulerVars, clockVars, utilVars>>

NextCompose == ProposeAction \/ ComposeActionsCall

SpecCompose == InitCompose /\ [][NextCompose]_vars

(***************************************************************************)
(* Claims about evaluateLaw (SpecEval).                                    *)
(***************************************************************************)
Holds(block) == Truthy(evaluateExpression(law.triage[block].condition, ctx))

\* C1: evaluateLaw returns the triage and the action list of the first of
\* ok, doubt, not whose condition is true: ok when the ok condition holds,
\* doubt (with the law's doubt actions) when ok is false and doubt holds, not
\* when ok and doubt are false and not holds.
C1_FirstTrueConditionWins ==
    triageResult # NoResult =>
        /\ Holds("ok") =>
              triageResult = [triage |-> "ok", actions |-> law.triage.ok.actions]
        /\ ~Holds("ok") /\ Holds("doubt") =>
              triageResult = [triage |-> "doubt", actions |-> law.triage.doubt.actions]
        /\ ~Holds("ok") /\ ~Holds("doubt") /\ Holds("not") =>
              triageResult = [triage |-> "not", actions |-> law.triage["not"].actions]

\* C1 witness: a call where both the ok and the doubt condition hold returned
\* ok, and a later condition being true did not matter.
C1_Witness ==
    /\ triageResult # NoResult
    /\ Holds("ok") /\ Holds("doubt") /\ Holds("not")
    /\ triageResult.triage = "ok"

\* C2: when none of the three conditions is true (empty and malformed
\* conditions included) evaluateLaw returns doubt with exactly
\* [hold(hours=24), notify(role=ops), append_ledger]; and every call returns a
\* disposition ok, doubt or not.
C2_FailClosedDefault ==
    triageResult # NoResult =>
        /\ triageResult.triage \in {"ok", "doubt", "not"}
        /\ ~Holds("ok") /\ ~Holds("doubt") /\ ~Holds("not") =>
              triageResult =
                  [triage |-> "doubt",
                   actions |-> <<[type |-> "hold", hours |-> 24],
                                 [type |-> "notify", role |-> "ops"],
                                 [type |-> "append_ledger"]>>]

\* C2 witness: a law with a malformed condition, none of whose conditions is
\* true, was evaluated and returned the default.
C2_Witness ==
    /\ triageResult # NoResult
    /\ law.triage.ok.condition = Malformed
    /\ ~Holds("ok") /\ ~Holds("doubt") /\ ~Holds("not")
    /\ triageResult.actions = FailClosedActions

(***************************************************************************)
(* Claims about composeActions (SpecCompose).                              *)
(***************************************************************************)
IsTransition(a) == a.type \in {"terminate", "accept", "hold"}

Composed == composed # <<>>

\* The positions in layerOrder of the layers that propose a state transition.
Proposers ==
    {n \in 1..Len(layerOrder) :
        \E i \in 1..Len(LayerActions(actionsByLayer, layerOrder[n])) :
            IsTransition(LayerActions(actionsByLayer, layerOrder[n])[i])}

TopProposer == CHOOSE n \in Proposers : \A k \in Proposers : n <= k

C4_AppendLedgerOnceLast ==
    Composed =>
        /\ Cardinality({i \in 1..Len(composed) : composed[i].type = "append_ledger"}) = 1
        /\ composed[Len(composed)].type = "append_ledger"

\* C4 witness: append_ledger was proposed more than once (by one layer or by
\* several) and the map was composed.
C4_Witness ==
    /\ Composed
    /\ Len(SelectSeq(AllActions(actionsByLayer, 1),
                     LAMBDA a : a.type = "append_ledger")) >= 2

(***************************************************************************)
(* Span utilities used by the scheduler.                                   *)
(***************************************************************************)
\* validateGovernableSpan: the messages it collects ("" is a missing string).
\* A validation that stops at the first failed test.
ValidationErrorsFirst(span) ==
    IF span.tenant_id = "" THEN <<"Missing REQUIRED field: tenant_id">>
    ELSE IF span.app = "" THEN <<"Missing REQUIRED field: app">>
    ELSE IF span.resource.type = "" THEN <<"Missing REQUIRED field: resource.type">>
    ELSE IF span.resource.id = "" THEN <<"Missing REQUIRED field: resource.id">>
    ELSE IF span.who.id = "" THEN <<"Missing REQUIRED field: who.id (§9 who_required)">>
    ELSE IF span.who.role = "" THEN <<"Missing REQUIRED field: who.role (§9 who_required)">>
    ELSE IF span.clock.ts.t = "undefined" THEN <<"Missing REQUIRED field: clock.ts (§9 clock_present)">>
    ELSE IF span.clock.tz = "" THEN <<"Missing REQUIRED field: clock.tz (§9 clock_present)">>
    ELSE IF span.trace_id = "" THEN <<"Missing REQUIRED field: trace_id (§13)">>
    ELSE IF span.idempotency_key = "" THEN <<"Missing REQUIRED field: idempotency_key (§13)">>
    ELSE IF span.resource.type = "deliverable" /\ span.resource.deadline_at.t = "undefined"
    THEN <<"For deliverable scope, deadline_at is MUST (§4.1)">>
    ELSE <<>>

\* The messages validateGovernableSpan collects, in the order of its tests.
ValidationErrors(span) ==
    (IF span.tenant_id = "" THEN <<"Missing REQUIRED field: tenant_id">> ELSE <<>>)
    \o (IF span.app = "" THEN <<"Missing REQUIRED field: app">> ELSE <<>>)
    \o (IF span.resource.type = "" THEN <<"Missing REQUIRED field: resource.type">> ELSE <<>>)
    \o (IF span.resource.id = "" THEN <<"Missing REQUIRED field: resource.id">> ELSE <<>>)
    \o (IF span.who.id = "" THEN <<"Missing REQUIRED field: who.id (§9 who_required)">> ELSE <<>>)
    \o (IF span.who.role = "" THEN <<"Missing REQUIRED field: who.role (§9 who_required)">> ELSE <<>>)
    \o (IF span.clock.ts.t = "undefined" THEN <<"Missing REQUIRED field: clock.ts (§9 clock_present)">> ELSE <<>>)
    \o (IF span.clock.tz = "" THEN <<"Missing REQUIRED field: clock.tz (§9 clock_present)">> ELSE <<>>)
    \o (IF span.trace_id = "" THEN <<"Missing REQUIRED field: trace_id (§13)">> ELSE <<>>)
    \o (IF span.idempotency_key = "" THEN <<"Missing REQUIRED field: idempotency_key (§13)">> ELSE <<>>)
    \o (IF span.resource.type = "deliverable" /\ span.resource.deadline_at.t = "undefined"
        THEN <<"For deliverable scope, deadline_at is MUST (§4.1)">> ELSE <<>>)

\* validateGovernableSpan returns true; it throws when it collected a message.
validateGovernableSpan(span) == ValidationErrors(span) = <<>>

\* buildEvaluationContext
buildEvaluationContext(span, tenantConfig) ==
    [now |-> span.clock.ts,
     tenant |-> tenantConfig,
     resource |-> span.resource,
     span |-> [id |-> span.id, trace_id |-> span.trace_id]]

\* actionToObligation
actionToObligation(a) ==
    CASE a.type = "accept"        -> "accept"
      [] a.type = "hold"          -> "hold(hours=" \o ToString(a.hours) \o ")"
      [] a.type = "terminate"     -> "terminate(reason=" \o a.reason \o ")"
      [] a.type = "notify"        -> "notify(role=" \o a.role \o ")"
      [] a.type = "tag"           -> "tag(key=" \o a.key \o ",val=" \o a.val \o ")"
      [] a.type = "append_ledger" -> "append_ledger"
      [] a.type = "emit"          -> "emit(event=" \o a.event \o ")"
      [] OTHER                    -> "unknown"

\* createLawDecisionSpan. Its three generateUUID calls (id, decision_id,
\* idempotency_key) are fresh on every call: uuid stands for all three.
createLawDecisionSpan(params, uuid) ==
    [id |-> uuid,
     type |-> "law.decision",
     tenant_id |-> params.tenant_id,
     app |-> "governance",
     resource |-> params.resource,
     who |-> [id |-> "policy_agent", role |-> "system"],
     law |-> [scope |-> params.law_scope,
              targets |-> params.law_targets,
              triage |-> params.triage,
              obligations |-> params.obligations,
              law_text_hash |-> params.law_text_hash,
              decision_id |-> uuid],
     links |-> [caused_by |-> params.caused_by_span_id],
     trace_id |-> params.trace_id,
     idempotency_key |-> uuid]

\* createLedgerEvent
createLedgerEvent(params) ==
    [ts |-> "now",
     who |-> params.who,
     what |-> params.what,
     why |-> params.why,
     resource |-> params.resource,
     links |-> [decision_span |-> params.decision_span_id,
                trace_id |-> params.trace_id],
     metadata |-> params.metadata]

(***************************************************************************)
(* The Midnight Ruler: configuration and the resources its store holds.    *)
(***************************************************************************)
DefaultClockDriftThresholdMs == 500

\* The tenant's law: the conditions of midnight_deadline with two actions a
\* block.
DeadlineLaw ==
    LawDefinition("deadline:1.0.0", "deliverable",
                  Block(OkCondition, <<Accept, AppendLedger>>),
                  Block(DoubtCondition, <<Hold(24), AppendLedger>>),
                  Block(NotCondition, <<Terminate("deadline_passed"), AppendLedger>>))

config ==
    [tenant_id |-> "voulezvous",
     timezone |-> "Europe/Paris",
     quorum |-> Quorum,
     laws |-> <<DeadlineLaw>>,
     clock_drift_threshold_ms |-> DefaultClockDriftThresholdMs]

\* What checkClockDrift may measure: no drift, the threshold, just above it.
DriftValues ==
    {0, DefaultClockDriftThresholdMs, DefaultClockDriftThresholdMs + 1}

\* A deliverable past its deadline, not accepted, evidence missing.
OverdueSpan ==
    [id |-> "span:activity:1", tenant_id |-> "voulezvous", app |-> "marketplace",
     resource |-> [type |-> "deliverable", id |-> "D001",
                   deadline_at |-> Num(Deadline), accepted |-> Bool(FALSE),
                   approvals |-> <<>>, evidence_missing |-> Bool(TRUE)],
     who |-> [id |-> "buyer@voulezvous", role |-> "buyer"],
     clock |-> [ts |-> Num(Deadline + 1), tz |-> "Europe/Paris"],
     trace_id |-> "trace_1", idempotency_key |-> "idem_1",
     law_targets |-> <<>>]

\* A span that violates who_required.
PoisonSpan ==
    [id |-> "span:activity:2", tenant_id |-> "voulezvous", app |-> "marketplace",
     resource |-> [type |-> "deliverable", id |-> "D002",
                   deadline_at |-> Num(Deadline), accepted |-> Bool(FALSE),
                   approvals |-> <<>>, evidence_missing |-> Bool(FALSE)],
     who |-> [id |-> "buyer@voulezvous", role |-> ""],
     clock |-> [ts |-> Num(Deadline + 1), tz |-> "Europe/Paris"],
     trace_id |-> "trace_2", idempotency_key |-> "idem_2",
     law_targets |-> <<>>]

ActiveSpans == {OverdueSpan, PoisonSpan}

MaxFetch  == 2     \* resources one fetch returns at most
MaxRuns   == 2     \* timer firings explored
MaxFaults == 2     \* storage calls that reject, in all

\* What fetchActiveDeliverables may return from the tenant's store: active
\* resources, each at most once, in any order.
FetchResults ==
    {spans \in UNION {[1..n -> ActiveSpans] : n \in 0..MaxFetch} :
        \A a, b \in 1..Len(spans) : spans[a] = spans[b] => a = b}

(***************************************************************************)
(* Positions of a run.  A run is the callback of one fired timer; between  *)
(* two awaits it runs without interruption.  pc names the await it is      *)
(* suspended at:                                                           *)
(*   "fetch"             await this.fetchActiveDeliverables()              *)
(*   "checkIdempotency"  await this.checkIdempotency(key)                  *)
(*   "executeAction"     await this.appendToLedger(event) of action k      *)
(*   "storeDecisionSpan" await this.storeDecisionSpan(decisionSpan)        *)
(*   "handleError"       await this.appendToLedger(incidentEvent)          *)
(*   "done"              the callback has returned or rejected             *)
(***************************************************************************)
NoDecision == [id |-> 0]
NoError    == [type |-> "none"]

\* The GovernanceError handleError is recording.
GovernanceError(type, span) ==
    IF type = "poison_input"
    THEN [type |-> type, span_id |-> span.id, trace_id |-> span.trace_id]
    ELSE [type |-> type]

Position(pc, i, decision, actions, k, error, outcome) ==
    [pc |-> pc, i |-> i, decision |-> decision, actions |-> actions, k |-> k,
     error |-> error, outcome |-> outcome]

\* The filter of processSpan with the scope test alone: the targets of the
\* span are not consulted.
SelectLawsByScope(laws, span) ==
    SelectSeq(laws, LAMBDA l : l.scope = span.resource.type)

\* The laws processSpan selects for a span out of this.config.laws, in their
\* order. law_targets is `span.law?.targets || []`.
SelectLawsFrom(laws, span) ==
    SelectSeq(laws,
              LAMBDA l : \/ \E t \in 1..Len(span.law_targets) : span.law_targets[t] = l.id
                         \/ (l.scope = span.resource.type /\ Len(span.law_targets) = 0))

\* The selection of the instance modelled by Spec.
SelectLaws(span) == SelectLawsFrom(config.laws, span)

\* executeDecision up to its first await: the decision span it creates.
DecisionFor(span, l, result, uuid) ==
    createLawDecisionSpan(
        [tenant_id |-> span.tenant_id,
         resource |-> span.resource,
         triage |-> result.triage,
         obligations |-> [n \in 1..Len(result.actions) |->
                             actionToObligation(result.actions[n])],
         law_targets |-> <<l.id>>,
         law_scope |-> l.scope,
         law_text_hash |-> "blake3:unknown",
         caused_by_span_id |-> span.id,
         trace_id |-> span.trace_id], uuid)

\* The for loop of executeMidnightRun from span i on, up to the next await:
\* processSpan validates (a throw goes to its catch, which awaits handleError),
\* selects the laws (none: next span), evaluates the first law and enters
\* executeDecision, which suspends at checkIdempotency. After the last span
\* the run has completed.
RECURSIVE ProcessSpans(_, _, _)
ProcessSpans(spans, i, uuid) ==
    IF i > Len(spans)
    THEN Position("done", i, NoDecision, <<>>, 0, NoError, "completed")
    ELSE LET span == spans[i]
         IN  IF ~validateGovernableSpan(span)
             THEN Position("handleError", i, NoDecision, <<>>, 0,
                           GovernanceError("poison_input", span), "running")
             ELSE LET laws == SelectLaws(span)
                      cx   == buildEvaluationContext(span,
                                 [id |-> config.tenant_id, quorum |-> config.quorum,
                                  timezone |-> config.timezone])
                  IN  IF Len(laws) = 0
                      THEN ProcessSpans(spans, i + 1, uuid)
                      ELSE LET result == evaluateLaw(laws[1], cx)
                           IN  Position("checkIdempotency", i,
                                        DecisionFor(span, laws[1], result, uuid),
                                        result.actions, 0, NoError, "running")

(***************************************************************************)
(* The storage methods of the class.  Their stores are ledger and          *)
(* decisionStore; a call may also reject (the step names ...Rejects).      *)
(***************************************************************************)
\* checkIdempotency(key): the answer the method gives.
checkIdempotency(key) == FALSE

\* The event executeAction builds for one action of a decision.
\* An action event that links to its decision span but is given no trace_id.
ActionEventUntraced(action, span, decisionSpanId) ==
    createLedgerEvent(
        [who |-> [id |-> "policy_agent", role |-> "system"],
         what |-> span.resource.type \o "." \o action.type,
         why |-> IF "reason" \in DOMAIN action THEN action.reason ELSE action.type,
         resource |-> span.resource,
         decision_span_id |-> decisionSpanId,
         trace_id |-> "",
         metadata |-> action])

ActionEvent(action, span, decisionSpanId) ==
    createLedgerEvent(
        [who |-> [id |-> "policy_agent", role |-> "system"],
         what |-> span.resource.type \o "." \o action.type,
         why |-> IF "reason" \in DOMAIN action THEN action.reason ELSE action.type,
         resource |-> span.resource,
         decision_span_id |-> decisionSpanId,
         trace_id |-> span.trace_id,
         metadata |-> action])

\* The incident event handleError builds.
IncidentEvent(error) ==
    IF "span_id" \in DOMAIN error
    THEN [ts |-> "now", type |-> "governance.incident", error_type |-> error.type,
          span_id |-> error.span_id, trace_id |-> error.trace_id]
    ELSE [ts |-> "now", type |-> "governance.incident", error_type |-> error.type]

(***************************************************************************)
(* start(), stop(), scheduleNextRun()                                      *)
(***************************************************************************)
InFlight == {rid \in DOMAIN runs : runs[rid].pc # "done"}

\* The handle setTimeout returns: distinct from every armed timer and from the
\* handle this.schedulerId still holds.
NewTimer ==
    CHOOSE n \in 1..(Cardinality(timers) + 2) :
        /\ n \notin timers \cup {schedulerId}
        /\ \A k \in 1..(n - 1) : k \in timers \cup {schedulerId}

\* scheduleNextRun: arm a timer for the next midnight and keep its handle.
scheduleNextRun ==
    /\ timers' = timers \cup {NewTimer}
    /\ schedulerId' = NewTimer

\* start() without the `if (this.running) return`.
StartAlwaysArms ==
    /\ running' = TRUE
    /\ scheduleNextRun
    /\ op' = "start"
    /\ UNCHANGED <<runs, nextUuid, ledger, decisionStore, faults, triageVars, composeVars, clockVars, utilVars>>

Start ==
    /\ IF running
       THEN UNCHANGED <<running, timers, schedulerId>>
       ELSE /\ running' = TRUE
            /\ scheduleNextRun
    /\ op' = "start"
    /\ UNCHANGED <<runs, nextUuid, ledger, decisionStore, faults, triageVars, composeVars, clockVars, utilVars>>

\* stop() that also abandons the runs in flight.
StopAbortsRuns ==
    /\ timers' = timers \ {schedulerId}
    /\ schedulerId' = NoTimer
    /\ running' = FALSE
    /\ runs' = [rid \in DOMAIN runs |->
                   IF runs[rid].pc = "done" THEN runs[rid]
                   ELSE [runs[rid] EXCEPT !.pc = "done", !.outcome = "completed"]]
    /\ op' = "stop"
    /\ UNCHANGED <<nextUuid, ledger, decisionStore, faults, triageVars, composeVars, clockVars, utilVars>>

Stop ==
    /\ timers' = timers \ {schedulerId}
    /\ schedulerId' = NoTimer
    /\ running' = FALSE
    /\ op' = "stop"
    /\ UNCHANGED <<runs, nextUuid, ledger, decisionStore, faults, triageVars, composeVars, clockVars, utilVars>>

(***************************************************************************)
(* A run: the timer callback, executeMidnightRun, processSpan,             *)
(* executeDecision, executeAction, handleError.                            *)
(***************************************************************************)
RunAt(pos, spans, drift) ==
    [pc |-> pos.pc, i |-> pos.i, decision |-> pos.decision, actions |-> pos.actions,
     k |-> pos.k, error |-> pos.error, outcome |-> pos.outcome, spans |-> spans,
     drift |-> drift]

\* handleError entered with an error of the given type.
HandleError(r, type) ==
    Position("handleError", r.i, NoDecision, <<>>, 0,
             GovernanceError(type, IF type = "poison_input" THEN r.spans[r.i] ELSE r),
             "running")

\* The timer callback after `await this.executeMidnightRun()`:
\* `if (this.running) await this.scheduleNextRun()`. A rejected
\* executeMidnightRun rejects the callback before that line.
Resume(rid, pos, spans) ==
    /\ runs' = [runs EXCEPT ![rid] = RunAt(pos, spans, runs[rid].drift)]
    /\ IF pos.pc = "done" /\ pos.outcome # "rejected" /\ running
       THEN scheduleNextRun
       ELSE UNCHANGED <<timers, schedulerId>>
    /\ nextUuid' = IF pos.pc = "checkIdempotency" THEN nextUuid + 1 ELSE nextUuid
    /\ op' = "run"
    /\ UNCHANGED <<running, triageVars, composeVars, clockVars, utilVars>>

\* A comparison that also counts a drift equal to the threshold.
DriftAtThresholdExceeds(drift) == drift >= config.clock_drift_threshold_ms

\* `drift > this.config.clock_drift_threshold_ms!`
DriftExceeds(drift) == drift > config.clock_drift_threshold_ms

\* A timer fires: its callback starts executeMidnightRun, which measures the
\* drift and either records a clock_drift incident or starts the fetch.
TimerFires ==
    /\ Len(runs) < MaxRuns
    /\ \E t \in timers, drift \in DriftValues :
          /\ timers' = timers \ {t}
          /\ runs' = Append(runs,
                 IF DriftExceeds(drift)
                 THEN RunAt(Position("handleError", 0, NoDecision, <<>>, 0,
                                     GovernanceError("clock_drift", <<>>), "running"),
                            <<>>, drift)
                 ELSE RunAt(Position("fetch", 0, NoDecision, <<>>, 0, NoError, "running"),
                            <<>>, drift))
    /\ op' = "fire"
    /\ UNCHANGED <<running, schedulerId, nextUuid, ledger, decisionStore, faults,
                   triageVars, composeVars, clockVars, utilVars>>

FetchReturns(rid) ==
    /\ runs[rid].pc = "fetch"
    /\ \E spans \in FetchResults : Resume(rid, ProcessSpans(spans, 1, nextUuid), spans)
    /\ UNCHANGED <<ledger, decisionStore, faults>>

FetchRejects(rid) ==
    /\ runs[rid].pc = "fetch"
    /\ faults < MaxFaults
    /\ faults' = faults + 1
    /\ Resume(rid, HandleError(runs[rid], "scheduler_failure"), runs[rid].spans)
    /\ UNCHANGED <<ledger, decisionStore>>

\* executeDecision after the idempotency answer: a duplicate is skipped, else
\* the first action is executed (or, with no action, the span is stored).
CheckIdempotencyReturns(rid) ==
    LET r == runs[rid]
    IN  /\ r.pc = "checkIdempotency"
        /\ Resume(rid,
                  IF checkIdempotency(r.decision.idempotency_key)
                  THEN ProcessSpans(r.spans, r.i + 1, nextUuid)
                  ELSE IF Len(r.actions) = 0
                  THEN Position("storeDecisionSpan", r.i, r.decision, r.actions, 0,
                                NoError, "running")
                  ELSE Position("executeAction", r.i, r.decision, r.actions, 1,
                                NoError, "running"),
                  r.spans)
        /\ UNCHANGED <<ledger, decisionStore, faults>>

\* A rejection inside executeDecision reaches the catch of processSpan.
CheckIdempotencyRejects(rid) ==
    /\ runs[rid].pc = "checkIdempotency"
    /\ faults < MaxFaults
    /\ faults' = faults + 1
    /\ Resume(rid, HandleError(runs[rid], "poison_input"), runs[rid].spans)
    /\ UNCHANGED <<ledger, decisionStore>>

\* appendToLedger(event) of action k resolves: next action, or store the span.
ExecuteActionReturns(rid) ==
    LET r == runs[rid]
    IN  /\ r.pc = "executeAction"
        /\ ledger' = Append(ledger, ActionEvent(r.actions[r.k], r.spans[r.i], r.decision.id))
        /\ Resume(rid,
                  IF r.k < Len(r.actions)
                  THEN Position("executeAction", r.i, r.decision, r.actions, r.k + 1,
                                NoError, "running")
                  ELSE Position("storeDecisionSpan", r.i, r.decision, r.actions, 0,
                                NoError, "running"),
                  r.spans)
        /\ UNCHANGED <<decisionStore, faults>>

\* A failed action that is swallowed: the loop goes on with the next action,
\* or stores the span after the last.
ExecuteActionRejectsGoesOn(rid) ==
    LET r == runs[rid]
    IN  /\ r.pc = "executeAction"
        /\ faults < MaxFaults
        /\ faults' = faults + 1
        /\ Resume(rid,
                  IF r.k < Len(r.actions)
                  THEN Position("executeAction", r.i, r.decision, r.actions, r.k + 1,
                                NoError, "running")
                  ELSE Position("storeDecisionSpan", r.i, r.decision, r.actions, 0,
                                NoError, "running"),
                  r.spans)
        /\ UNCHANGED <<ledger, decisionStore>>

ExecuteActionRejects(rid) ==
    /\ runs[rid].pc = "executeAction"
    /\ faults < MaxFaults
    /\ faults' = faults + 1
    /\ Resume(rid, HandleError(runs[rid], "poison_input"), runs[rid].spans)
    /\ UNCHANGED <<ledger, decisionStore>>

StoreDecisionSpanReturns(rid) ==
    LET r == runs[rid]
    IN  /\ r.pc = "storeDecisionSpan"
        /\ decisionStore' = Append(decisionStore, r.decision)
        /\ Resume(rid, ProcessSpans(r.spans, r.i + 1, nextUuid), r.spans)
        /\ UNCHANGED <<ledger, faults>>

StoreDecisionSpanRejects(rid) ==
    /\ runs[rid].pc = "storeDecisionSpan"
    /\ faults < MaxFaults
    /\ faults' = faults + 1
    /\ Resume(rid, HandleError(runs[rid], "poison_input"), runs[rid].spans)
    /\ UNCHANGED <<ledger, decisionStore>>

\* A continuation in which a poison_input ends the run like a failure.
AfterHandleErrorAborts(r, uuid) ==
    IF r.error.type = "clock_drift"
    THEN Position("done", r.i, NoDecision, <<>>, 0, NoError, "drift_abort")
    ELSE Position("done", r.i, NoDecision, <<>>, 0, NoError, "failed")

\* Where the run goes on after `await this.handleError(...)`: a clock_drift
\* run returns, a poison_input goes on with the next span, a
\* scheduler_failure ends executeMidnightRun.
AfterHandleError(r, uuid) ==
    CASE r.error.type = "clock_drift" ->
            Position("done", r.i, NoDecision, <<>>, 0, NoError, "drift_abort")
      [] r.error.type = "poison_input" ->
            ProcessSpans(r.spans, r.i + 1, uuid)
      [] OTHER ->
            Position("done", r.i, NoDecision, <<>>, 0, NoError, "failed")

\* appendToLedger(incidentEvent) of handleError resolves.
HandleErrorReturns(rid) ==
    LET r == runs[rid]
    IN  /\ r.pc = "handleError"
        /\ ledger' = Append(ledger, IncidentEvent(r.error))
        /\ Resume(rid, AfterHandleError(r, nextUuid), r.spans)
        /\ UNCHANGED <<decisionStore, faults>>

\* appendToLedger(incidentEvent) rejects: inside the try of executeMidnightRun
\* (clock_drift, poison_input) its catch records a scheduler_failure; inside
\* that catch nothing handles it and executeMidnightRun rejects.
HandleErrorRejects(rid) ==
    LET r == runs[rid]
    IN  /\ r.pc = "handleError"
        /\ faults < MaxFaults
        /\ faults' = faults + 1
        /\ Resume(rid,
                  IF r.error.type = "scheduler_failure"
                  THEN Position("done", r.i, NoDecision, <<>>, 0, NoError, "rejected")
                  ELSE HandleError(r, "scheduler_failure"),
                  r.spans)
        /\ UNCHANGED <<ledger, decisionStore>>

Init == RulerIdle /\ TriageIdle /\ ComposeIdle /\ ClockIdle /\ UtilIdle

Next ==
    \/ Start
    \/ Stop
    \/ TimerFires
    \/ \E rid \in DOMAIN runs : FetchReturns(rid)
    \/ \E rid \in DOMAIN runs : FetchRejects(rid)
    \/ \E rid \in DOMAIN runs : CheckIdempotencyReturns(rid)
    \/ \E rid \in DOMAIN runs : CheckIdempotencyRejects(rid)
    \/ \E rid \in DOMAIN runs : ExecuteActionReturns(rid)
    \/ \E rid \in DOMAIN runs : ExecuteActionRejects(rid)
    \/ \E rid \in DOMAIN runs : StoreDecisionSpanReturns(rid)
    \/ \E rid \in DOMAIN runs : StoreDecisionSpanRejects(rid)
    \/ \E rid \in DOMAIN runs : HandleErrorReturns(rid)
    \/ \E rid \in DOMAIN runs : HandleErrorRejects(rid)

Spec == Init /\ [][Next]_vars

(***************************************************************************)
(* Claims about the scheduler (Spec).                                      *)
(***************************************************************************)
IsActionEvent(e)   == "what" \in DOMAIN e
IsIncidentEvent(e) == "error_type" \in DOMAIN e

Incidents(type) ==
    {n \in DOMAIN ledger : IsIncidentEvent(ledger[n]) /\ ledger[n].error_type = type}

\* Two decision spans are the same decision: same input span, same law, same
\* triage, same obligations (their minted identifiers aside).
SameDecision(d, e) ==
    /\ d.links.caused_by = e.links.caused_by
    /\ d.law.targets = e.law.targets
    /\ d.law.triage = e.law.triage
    /\ d.law.obligations = e.law.obligations

\* C5: executing the same decision twice leaves one stored decision span and
\* one set of ledger events: a decision already stored (all its action events
\* appended) is not executed and stored again.
C5_SameDecisionOnce ==
    \A a, b \in DOMAIN decisionStore :
        SameDecision(decisionStore[a], decisionStore[b]) => a = b

\* C6: at most one run of the instance is in progress at any time.
C6_RunsSerial == Cardinality(InFlight) <= 1

\* C7: every run of a scheduler that has not been stopped is followed by a
\* new armed wait, and a run that failed has its scheduler_failure incident
\* in the ledger.
C7_CadenceSurvives ==
    /\ (running /\ InFlight = {} /\ Len(runs) > 0) => timers # {}
    /\ Cardinality(Incidents("scheduler_failure")) >=
          Cardinality({rid \in DOMAIN runs : runs[rid].outcome \in {"failed", "rejected"}})

\* C8: after stop() no run begins until start() is called again: a run
\* begins only while the scheduler is running.
C8_NoRunAfterStop == [][Len(runs') > Len(runs) => running]_vars

\* C9: stop() never aborts a run in progress: the step of stop() leaves every
\* run where it is, with its fetched resources and its position, and a run
\* that completed has gone through every resource it fetched.
C9_StopNeverAbortsRun ==
    /\ [](\A rid \in DOMAIN runs :
            (runs[rid].pc = "done" /\ runs[rid].outcome = "completed") =>
                runs[rid].i = Len(runs[rid].spans) + 1)
    /\ [][op' = "stop" => runs' = runs]_vars

\* C9 witness: stop() has just been called while a run was suspended with
\* fetched resources still to process.
C9_Witness ==
    /\ op = "stop"
    /\ \E rid \in InFlight : runs[rid].i >= 1 /\ runs[rid].i < Len(runs[rid].spans)

\* C10: start() while the scheduler is running changes nothing: no wait is
\* armed and the handle of the pending wait is kept.
C10_StartIdempotent ==
    [][(op' = "start" /\ running) =>
          UNCHANGED <<running, schedulerId, timers, runs, nextUuid, ledger,
                      decisionStore, faults>>]_vars

\* C10 witness: start() has just been called after the armed timer fired and
\* before anything re-armed: it returned without arming (a start() that arms
\* leaves schedulerId among the armed timers).
C10_Witness ==
    /\ op = "start"
    /\ running
    /\ schedulerId # NoTimer
    /\ schedulerId \notin timers

\* The run rid takes the step.
Steps(rid) == rid \in DOMAIN runs /\ runs'[rid] # runs[rid]

\* The step appends exactly the event e to the ledger.
Appends(e) == ledger' = Append(ledger, e)

Quarantining(r) ==
    /\ r.pc = "handleError"
    /\ r.error.type = "poison_input"
    /\ ~validateGovernableSpan(r.spans[r.i])

ActionEventsOf(id) ==
    {n \in DOMAIN ledger : IsActionEvent(ledger[n]) /\ ledger[n].links.decision_span = id}

\* C13: every decision with an action event in the ledger is either still
\* being executed by a run in progress, or is stored with one action event
\* for each of its obligations.
C13_StartedDecisionTerminal ==
    \A n \in DOMAIN ledger :
        IsActionEvent(ledger[n]) =>
            LET id == ledger[n].links.decision_span
            IN  \/ \E rid \in InFlight :
                      /\ runs[rid].decision.id = id
                      /\ runs[rid].pc \in {"executeAction", "storeDecisionSpan"}
                \/ \E d \in DOMAIN decisionStore :
                      /\ decisionStore[d].id = id
                      /\ Cardinality(ActionEventsOf(id)) = Len(decisionStore[d].law.obligations)

\* The run rid has been told its decision is unprocessed and is executing it.
Executing(rid) == runs[rid].pc \in {"executeAction", "storeDecisionSpan"}

\* C14: of the executors that process the same decision at the same time, at
\* most one is told it is unprocessed and executes its actions.
C14_AtMostOneExecutor ==
    \A a, b \in InFlight :
        (Executing(a) /\ Executing(b) /\ SameDecision(runs[a].decision, runs[b].decision))
            => a = b

(***************************************************************************)
(* The instance against the wall clock (SpecClock).  Instants are hours    *)
(* since 2026-03-28T00:00Z; the window holds the end of March and the      *)
(* start of daylight-saving time in Europe (2026-03-29T01:00Z).            *)
(***************************************************************************)
Paris   == Zone("Europe/Paris", 1, <<25>>, 2)
Tokyo   == Zone("Asia/Tokyo", 9, <<>>, 9)
NewYork == Zone("America/New_York", -4, <<>>, -4)
Zones   == {UTC, Paris, Tokyo, NewYork}

MaxInstant   == 95    \* the wall clock stops here
MaxClockRuns == 2     \* runs started against the wall clock

\* UTC offset of zone z at instant t.
Offset(z, t) == IF z.dstFrom # <<>> /\ t >= z.dstFrom[1] THEN z.dst ELSE z.std

\* Local calendar day (days since 2026-03-28) and local hour of instant t in z.
LocalDay(z, t)  == (t + Offset(z, t)) \div 24
LocalHour(z, t) == (t + Offset(z, t)) % 24

\* The civil date of a local day, and back.
CivilDate(k) ==
    IF 28 + k <= 31 THEN [year |-> 2026, month |-> 3, day |-> 28 + k]
                    ELSE [year |-> 2026, month |-> 4, day |-> k - 3]
DayOf(date) == IF date.month = 3 THEN date.day - 28 ELSE date.day + 3
DaysInMonth(month) == IF month = 3 THEN 31 ELSE 30

\* Decimal digits of n, at least `width` of them, and parseInt(digits, 10).
RECURSIVE Digits(_, _)
Digits(n, width) ==
    IF n < 10 /\ width <= 1 THEN <<n>>
    ELSE Append(Digits(n \div 10, width - 1), n % 10)

RECURSIVE ParseInt(_)
ParseInt(ds) ==
    IF ds = <<>> THEN 0 ELSE 10 * ParseInt(SubSeq(ds, 1, Len(ds) - 1)) + ds[Len(ds)]

\* Intl.DateTimeFormat("en-US", {timeZone, year: "numeric", month: "2-digit",
\* day: "2-digit"}).format(now): "MM/DD/YYYY" of the local date in z, as its
\* three digit groups.
FormatDate(z, t) ==
    LET date == CivilDate(LocalDay(z, t))
    IN  <<Digits(date.month, 2), Digits(date.day, 2), Digits(date.year, 4)>>

\* new Date(year, monthIndex, day, 0, 0, 0, 0): midnight of that date in the
\* zone of the host process; a day past the end of the month rolls over.
NewDate(year, monthIndex, day, host) ==
    LET month == monthIndex + 1
        date  == IF day > DaysInMonth(month)
                 THEN [year |-> year, month |-> month + 1, day |-> day - DaysInMonth(month)]
                 ELSE [year |-> year, month |-> month, day |-> day]
        local == 24 * DayOf(date)
    IN  IF host.dstFrom # <<>> /\ local - host.std >= host.dstFrom[1]
        THEN local - host.dst
        ELSE local - host.std

\* getNextMidnight(timezone), called at instant t on a host in zone host.
getNextMidnight(z, host, t) ==
    LET dateStr == FormatDate(z, t)
        month   == ParseInt(dateStr[1])
        day     == ParseInt(dateStr[2])
        year    == ParseInt(dateStr[3])
    IN  NewDate(year, month - 1, day + 1, host)

\* scheduleNextRun: delay = nextMidnight - now; setTimeout(callback, delay).
\* A timer whose delay is not positive is due at once.
ArmNextRun ==
    armedFor' = {[armedAt |-> clockNow,
                  due |-> getNextMidnight(timezone, hostZone, clockNow)]}

InitClock ==
    /\ timezone \in Zones
    /\ hostZone \in Zones
    /\ clockNow \in 0..23
    /\ armedFor = {}
    /\ startedAt = <<>>
    /\ clockPc = "idle"
    /\ TriageIdle /\ ComposeIdle /\ RulerIdle /\ UtilIdle

\* start()
ClockStart ==
    /\ clockPc = "idle"
    /\ ArmNextRun
    /\ clockPc' = "waiting"
    /\ UNCHANGED <<timezone, hostZone, clockNow, startedAt, triageVars, composeVars, rulerVars, utilVars>>

TimerIsDue == clockPc = "waiting" /\ \E w \in armedFor : w.due <= clockNow

\* An hour passes; a timer that is due fires before it does.
Tick ==
    /\ clockNow < MaxInstant
    /\ ~TimerIsDue
    /\ clockNow' = clockNow + 1
    /\ UNCHANGED <<timezone, hostZone, armedFor, startedAt, clockPc,
                   triageVars, composeVars, rulerVars, utilVars>>

\* The armed timer fires: its callback starts executeMidnightRun.
TimerDue ==
    /\ TimerIsDue
    /\ Len(startedAt) < MaxClockRuns
    /\ startedAt' = Append(startedAt, clockNow)
    /\ armedFor' = {}
    /\ clockPc' = "running"
    /\ UNCHANGED <<timezone, hostZone, clockNow, triageVars, composeVars, rulerVars, utilVars>>

\* executeMidnightRun has returned: `if (this.running) scheduleNextRun()`.
RunReturns ==
    /\ clockPc = "running"
    /\ ArmNextRun
    /\ clockPc' = "waiting"
    /\ UNCHANGED <<timezone, hostZone, clockNow, startedAt, triageVars, composeVars, rulerVars, utilVars>>

NextClock == ClockStart \/ Tick \/ TimerDue \/ RunReturns

SpecClock == InitClock /\ [][NextClock]_vars

(***************************************************************************)
(* Claims about the wall clock (SpecClock).                                *)
(***************************************************************************)
\* The first instant strictly after t at which the local time in z is 00:00.
FirstMidnightAfter(z, t) ==
    CHOOSE u \in (t + 1)..(t + 26) :
        /\ LocalHour(z, u) = 0
        /\ \A v \in (t + 1)..(u - 1) : LocalHour(z, v) # 0

\* C15: the wait armed after a run is strictly positive, and no two runs of
\* the instance start within the same local day of the configured zone.
C15_NoImmediateRetry ==
    /\ \A w \in armedFor : w.due > w.armedAt
    /\ \A a, b \in DOMAIN startedAt :
          a # b => LocalDay(timezone, startedAt[a]) # LocalDay(timezone, startedAt[b])

\* C16: whatever the host zone, getNextMidnight returns the first instant
\* strictly after now at which the local time in the configured zone is
\* 00:00: one hour ahead at 23:00 local, 23 hours ahead at 01:00 local.
C16_NextLocalMidnight ==
    \A w \in armedFor : w.due = FirstMidnightAfter(timezone, w.armedAt)

(***************************************************************************)
(* Further claims about evaluateExpression and evaluateLaw (SpecEval).     *)
(***************************************************************************)
\* C17: a variable the resource leaves unset is null, and a relational
\* comparison of a number with null (`now >= deadline_at` with deadline_at
\* unset, any of the four operators, either way round) is false.
C17_MismatchedComparisonFalse ==
    /\ ctx.resource.deadline_at = Undefined => Variables(ctx).deadline_at = Null
    /\ ctx.resource.accepted = Undefined => Variables(ctx).accepted = Null
    /\ ctx.resource.evidence_missing = Undefined => Variables(ctx).evidence_missing = Null
    /\ \A rel \in {">=", "<=", ">", "<"} :
          (Variables(ctx).deadline_at = Null /\ Variables(ctx).now # Null) =>
              /\ evaluateExpression(Rel(rel, Var("now"), Var("deadline_at")), ctx) = Bool(FALSE)
              /\ evaluateExpression(Rel(rel, Var("deadline_at"), Var("now")), ctx) = Bool(FALSE)

\* The condition of the block is empty or malformed, or faults when run.
Faults(block) == EvalJs(law.triage[block].condition, Variables(ctx)) = Thrown

DocumentedLawEvaluated ==
    /\ triageResult # NoResult
    /\ law.triage = MidnightDeadlineLaw.triage
    /\ ctx.resource.deadline_at # Undefined

IsSideEffect(a) == a.type \in {"tag", "notify", "emit"}

\* The side effects proposed by the layer at position n of layerOrder, and by
\* any layer.
ProposedAt(n) ==
    LET acts == LayerActions(actionsByLayer, layerOrder[n])
    IN  {acts[i] : i \in {j \in 1..Len(acts) : IsSideEffect(acts[j])}}
Proposed == UNION {ProposedAt(n) : n \in 1..Len(layerOrder)}

\* The positions of the output that hold a tag of key k / the action a.
TagsOf(k) == {i \in 1..Len(composed) : composed[i].type = "tag" /\ composed[i].key = k}
Occurrences(a) == {i \in 1..Len(composed) : composed[i] = a}

\* C20: for every tag key proposed the output holds exactly one tag of that
\* key, with a value set by the highest layer that set the key; every notify
\* role and emit event proposed is in the output exactly once; the output has
\* no side effect that no layer proposed.
C20_SideEffectUnion ==
    Composed =>
        /\ \A a \in Proposed :
              IF a.type = "tag"
              THEN LET top == CHOOSE n \in 1..Len(layerOrder) :
                                 /\ \E b \in ProposedAt(n) : b.type = "tag" /\ b.key = a.key
                                 /\ \A k \in 1..(n - 1) :
                                       ~\E b \in ProposedAt(k) : b.type = "tag" /\ b.key = a.key
                   IN  /\ Cardinality(TagsOf(a.key)) = 1
                       /\ \A i \in TagsOf(a.key) : composed[i] \in ProposedAt(top)
              ELSE Cardinality(Occurrences(a)) = 1
        /\ \A i \in 1..Len(composed) : IsSideEffect(composed[i]) => composed[i] \in Proposed

\* C20 witness: constitution and user set the same tag key to different
\* values and ops is notified twice: the output has the constitution's value
\* and one notify.
C20_Witness ==
    /\ Composed
    /\ LayerActions(actionsByLayer, "constitution") = <<Tag("status", "accepted")>>
    /\ LayerActions(actionsByLayer, "user") = <<Tag("status", "under_review"), Notify("ops")>>
    /\ SelectSeq(composed, IsSideEffect) = <<Tag("status", "accepted"), Notify("ops")>>

(***************************************************************************)
(* processSpan applied to one span (SpecSpan): the span a run fetched, the *)
(* laws of the configuration and the instant of the run are drawn from     *)
(* bounded sets; the storage behind executeDecision plays no part.         *)
(***************************************************************************)
\* The fields validateGovernableSpan tests.
SpanFields ==
    {"tenant_id", "app", "resource.type", "resource.id", "who.id", "who.role",
     "clock.ts", "clock.tz", "trace_id", "idempotency_key", "deadline_at"}

\* A value of clock.ts that is present and is no timestamp.
NotATimestamp == [t |-> "str", s |-> "soon"]

\* Zones the IANA database of the runtime resolves.
IanaZones == {z.name : z \in Zones} \cup {"UTC"}

\* A span of the tenant's store: the fields of `missing` are absent.
MakeSpan(missing, type, ts, tz, targets, accepted, approvals, evidence) ==
    [id |-> "span:activity:1",
     tenant_id |-> IF "tenant_id" \in missing THEN "" ELSE "voulezvous",
     app |-> IF "app" \in missing THEN "" ELSE "marketplace",
     resource |-> [type |-> IF "resource.type" \in missing THEN "" ELSE type,
                   id |-> IF "resource.id" \in missing THEN "" ELSE "D001",
                   deadline_at |-> IF "deadline_at" \in missing
                                   THEN Undefined ELSE Num(Deadline),
                   accepted |-> accepted,
                   approvals |-> approvals,
                   evidence_missing |-> evidence],
     who |-> [id |-> IF "who.id" \in missing THEN "" ELSE "buyer@voulezvous",
              role |-> IF "who.role" \in missing THEN "" ELSE "buyer"],
     clock |-> [ts |-> IF "clock.ts" \in missing THEN Undefined ELSE ts,
                tz |-> IF "clock.tz" \in missing THEN "" ELSE tz],
     trace_id |-> IF "trace_id" \in missing THEN "" ELSE "trace_1",
     idempotency_key |-> IF "idempotency_key" \in missing THEN "" ELSE "idem_1",
     law_targets |-> targets]

\* Laws a configuration may list: two of scope deliverable, one of scope
\* contract.
ReviewLaw ==
    LawDefinition("review:1.0.0", "deliverable",
                  Block(Lit(Bool(FALSE)), <<Accept>>),
                  Block(Lit(Bool(TRUE)), <<Hold(24), Notify("ops")>>),
                  Block(Lit(Bool(FALSE)), <<Terminate("rejected")>>))
ContractLaw ==
    LawDefinition("contract:1.0.0", "contract",
                  Block(OkCondition, <<Accept, AppendLedger>>),
                  Block(Lit(Bool(FALSE)), <<Hold(24)>>),
                  Block(Lit(Bool(TRUE)), <<Terminate("breach"), AppendLedger>>))

LawConfigs ==
    {<<MidnightDeadlineLaw>>,
     <<MidnightDeadlineLaw, ContractLaw, ReviewLaw>>,
     <<ReviewLaw, ContractLaw, MidnightDeadlineLaw>>,
     <<ContractLaw>>,
     <<>>}

TargetLists ==
    {<<>>, <<"contract:1.0.0">>, <<"review:1.0.0", "midnight_deadline:1.0.0">>,
     <<"unknown:1.0.0">>}

\* The spans drawn: any set of absent fields; any resource type and targets;
\* any clock, valid or not; any state of the deliverable, created before or
\* after its deadline.
SpanInputs ==
    {MakeSpan(m, "deliverable", Num(Deadline + 1), "Europe/Paris", <<>>,
              Bool(FALSE), <<>>, Bool(FALSE)) : m \in SUBSET SpanFields}
    \cup
    {MakeSpan({}, ty, Num(Deadline + 1), "Europe/Paris", tg,
              Bool(FALSE), <<>>, Bool(TRUE)) :
        ty \in {"deliverable", "contract"}, tg \in TargetLists}
    \cup
    {MakeSpan({}, "deliverable", ts, tz, <<>>, Bool(FALSE), <<>>, Bool(FALSE)) :
        ts \in {Num(Deadline + 1), NotATimestamp},
        tz \in {"Europe/Paris", "Mars/Olympus_Mons"}}
    \cup
    {MakeSpan({}, "deliverable", ts, "Europe/Paris", <<>>, ac, ap, ev) :
        ts \in {Num(Deadline - 1), Num(Deadline + 1)},
        ac \in {Bool(TRUE), Bool(FALSE)},
        ap \in {<<>>, [i \in 1..Quorum |-> "approver"]},
        ev \in {Bool(TRUE), Bool(FALSE)}}

\* The instants of the runs drawn: before and after the deadline.
RunTimes == {Deadline - 1, Deadline + 1, Deadline + 2}

\* Some condition of the law holds in the context (its result is not the
\* fail-closed default).
MatchesSome(l, c) ==
    \/ Truthy(evaluateExpression(l.triage.ok.condition, c))
    \/ Truthy(evaluateExpression(l.triage.doubt.condition, c))
    \/ Truthy(evaluateExpression(l.triage["not"].condition, c))

\* A loop that goes on to the next candidate while a law matched none of its
\* conditions, and decides by the first law that matched one.
processSpanFirstMatch(span, laws) ==
    IF ~validateGovernableSpan(span)
    THEN [status |-> "poison_input",
          message |-> <<"Invalid GovernableSpan:">> \o ValidationErrors(span)]
    ELSE LET cx == buildEvaluationContext(span,
                       [id |-> config.tenant_id, quorum |-> config.quorum,
                        timezone |-> config.timezone])
             candidates == SelectLawsFrom(laws, span)
             hits == {n \in 1..Len(candidates) : MatchesSome(candidates[n], cx)}
             pick == IF hits = {} THEN 1
                     ELSE CHOOSE n \in hits : \A m \in hits : n <= m
         IN  IF Len(candidates) = 0
             THEN [status |-> "no_laws", candidates |-> candidates]
             ELSE [status |-> "decided", candidates |-> candidates, ctx |-> cx,
                   law |-> candidates[pick],
                   result |-> evaluateLaw(candidates[pick], cx)]

\* processSpan up to the call of executeDecision: the error its catch hands
\* to handleError, or nothing when no law was selected, or the law chosen and
\* the result executeDecision is called with. The message of the Error of
\* validateGovernableSpan is carried as its lines.
processSpan(span, laws) ==
    IF ~validateGovernableSpan(span)
    THEN [status |-> "poison_input",
          message |-> <<"Invalid GovernableSpan:">> \o ValidationErrors(span)]
    ELSE LET cx == buildEvaluationContext(span,
                       [id |-> config.tenant_id, quorum |-> config.quorum,
                        timezone |-> config.timezone])
             candidates == SelectLawsFrom(laws, span)
         IN  IF Len(candidates) = 0
             THEN [status |-> "no_laws", candidates |-> candidates]
             ELSE [status |-> "decided", candidates |-> candidates, ctx |-> cx,
                   law |-> candidates[1],
                   result |-> evaluateLaw(candidates[1], cx)]

InitSpan ==
    /\ spanIn \in SpanInputs
    /\ configLaws \in LawConfigs
    /\ runTime \in RunTimes
    /\ spanIn.clock.ts.t = "num" => spanIn.clock.ts.n <= runTime
    /\ processed = NoOutcome
    /\ ParseIdle /\ MetricsIdle /\ AuthIdle
    /\ TriageIdle /\ ComposeIdle /\ RulerIdle /\ ClockIdle

ProcessSpanCall ==
    /\ processed = NoOutcome
    /\ processed' = processSpan(spanIn, configLaws)
    /\ UNCHANGED <<spanIn, configLaws, runTime, parseVars, metricsVars, authVars,
                   coreVars>>

NextSpan == ProcessSpanCall

SpecSpan == InitSpan /\ [][NextSpan]_vars

\* C21: the candidate laws of a span with law.targets are exactly the
\* configured laws whose id is among the targets, whatever their scope; those
\* of a span without targets are exactly the configured laws whose scope is
\* the resource type; either way in the order of the configuration.
InOrderOf(sub, seq) ==
    \E f \in [1..Len(sub) -> 1..Len(seq)] :
        /\ \A i \in 1..Len(sub) : sub[i] = seq[f[i]]
        /\ \A i, j \in 1..Len(sub) : i < j => f[i] < f[j]
Targeted(l) == \E t \in 1..Len(spanIn.law_targets) : spanIn.law_targets[t] = l.id
Candidate(l) ==
    IF Len(spanIn.law_targets) > 0
    THEN Targeted(l)
    ELSE l.scope = spanIn.resource.type
Selected ==
    IF processed.status = "poison_input" THEN <<>> ELSE processed.candidates
C21_CandidateLaws ==
    processed.status \in {"no_laws", "decided"} =>
        /\ \A n \in 1..Len(configLaws) :
              Candidate(configLaws[n]) <=>
                  \E k \in 1..Len(Selected) : Selected[k] = configLaws[n]
        /\ Len(Selected) = Cardinality({n \in 1..Len(configLaws) : Candidate(configLaws[n])})
        /\ InOrderOf(Selected, configLaws)
C21_Witness ==
    /\ processed.status = "decided"
    /\ spanIn.resource.type = "deliverable"
    /\ spanIn.law_targets = <<"contract:1.0.0">>
    /\ configLaws = <<MidnightDeadlineLaw, ContractLaw, ReviewLaw>>
    /\ processed.candidates = <<ContractLaw>>

\* C22: validateGovernableSpan raises one error that names every violated
\* invariant of the span and nothing else, and raises none for a span that
\* violates none.
Absent(field) ==
    CASE field = "tenant_id"       -> spanIn.tenant_id = ""
      [] field = "app"             -> spanIn.app = ""
      [] field = "resource.type"   -> spanIn.resource.type = ""
      [] field = "resource.id"     -> spanIn.resource.id = ""
      [] field = "who.id"          -> spanIn.who.id = ""
      [] field = "who.role"        -> spanIn.who.role = ""
      [] field = "clock.ts"        -> spanIn.clock.ts = Undefined
      [] field = "clock.tz"        -> spanIn.clock.tz = ""
      [] field = "trace_id"        -> spanIn.trace_id = ""
      [] field = "idempotency_key" -> spanIn.idempotency_key = ""
      [] field = "deadline_at"     -> /\ spanIn.resource.type = "deliverable"
                                      /\ spanIn.resource.deadline_at = Undefined
Naming(field) ==
    CASE field = "tenant_id"       -> "Missing REQUIRED field: tenant_id"
      [] field = "app"             -> "Missing REQUIRED field: app"
      [] field = "resource.type"   -> "Missing REQUIRED field: resource.type"
      [] field = "resource.id"     -> "Missing REQUIRED field: resource.id"
      [] field = "who.id"          -> "Missing REQUIRED field: who.id (§9 who_required)"
      [] field = "who.role"        -> "Missing REQUIRED field: who.role (§9 who_required)"
      [] field = "clock.ts"        -> "Missing REQUIRED field: clock.ts (§9 clock_present)"
      [] field = "clock.tz"        -> "Missing REQUIRED field: clock.tz (§9 clock_present)"
      [] field = "trace_id"        -> "Missing REQUIRED field: trace_id (§13)"
      [] field = "idempotency_key" -> "Missing REQUIRED field: idempotency_key (§13)"
      [] field = "deadline_at"     -> "For deliverable scope, deadline_at is MUST (§4.1)"
Violated == {f \in SpanFields : Absent(f)}
Named ==
    IF processed.status = "poison_input"
    THEN {f \in SpanFields :
            \E n \in 2..Len(processed.message) : processed.message[n] = Naming(f)}
    ELSE {}
C22_ValidateAggregates ==
    processed # NoOutcome =>
        /\ Named = Violated
        /\ processed.status = "poison_input" <=> Violated # {}
        /\ processed.status = "poison_input" =>
              Len(processed.message) = 1 + Cardinality(Violated)
C22_Witness ==
    /\ processed.status = "poison_input"
    /\ Violated = {"who.role", "clock.tz"}
    /\ processed.message = <<"Invalid GovernableSpan:",
                             "Missing REQUIRED field: who.role (§9 who_required)",
                             "Missing REQUIRED field: clock.tz (§9 clock_present)">>

\* C23: a span whose clock.ts is present and is no timestamp, or whose
\* clock.tz is present and is no zone of the IANA database, is rejected as
\* poison_input and is not evaluated.
ClockInvalid ==
    \/ spanIn.clock.ts # Undefined /\ spanIn.clock.ts.t # "num"
    \/ spanIn.clock.tz # "" /\ spanIn.clock.tz \notin IanaZones
C23_InvalidClockRejected ==
    (processed # NoOutcome /\ ClockInvalid) => processed.status = "poison_input"

\* C29: a run that takes place after the deadline of a deliverable that is
\* not accepted, is short of the quorum and misses no evidence gives triage
\* `not` with terminate(deadline_passed), under the midnight_deadline law.
C29_RunTimeIsNow ==
    ( /\ processed.status = "decided"
      /\ processed.law = MidnightDeadlineLaw
      /\ spanIn.resource.deadline_at = Num(Deadline)
      /\ runTime > Deadline
      /\ spanIn.resource.accepted = Bool(FALSE)
      /\ Len(spanIn.resource.approvals) < Quorum
      /\ spanIn.resource.evidence_missing = Bool(FALSE) )
    => /\ processed.result.triage = "not"
       /\ \E n \in 1..Len(processed.result.actions) :
             processed.result.actions[n] = Terminate("deadline_passed")

\* C28 (quorum_for_accept): when evaluateLaw, under the midnight_deadline law,
\* returns a decision whose actions include accept, the approvals of the
\* resource number at least the tenant's quorum.
C28_QuorumForAccept ==
    ( /\ law.triage = MidnightDeadlineLaw.triage
      /\ triageResult # NoResult
      /\ \E n \in 1..Len(triageResult.actions) : triageResult.actions[n] = Accept )
    => Len(ctx.resource.approvals) >= ctx.tenant.quorum

(***************************************************************************)
(* The law parser (SpecParse).  A law text is the sequence of its lines    *)
(* and a line the sequence of its lexemes:                                 *)
(*   L(s)  the fixed text s: "law ", "scope:", "if ok:", "then:", "hold(", *)
(*         "hours=", ")", ",", "#", ...                                    *)
(*   W(s)  a run of word characters that is no number                      *)
(*   N(n)  a run of digits                                                 *)
(*   V(s)  a version: digits and dots                                      *)
(*   X(s)  the text of a condition                                         *)
(* split(","), startsWith and the regular expressions of the parser work   *)
(* on these sequences; trim() has nothing to remove.                       *)
(***************************************************************************)
L(s) == [k |-> "lit", s |-> s]
W(s) == [k |-> "word", s |-> s]
N(n) == [k |-> "num", n |-> n]
V(s) == [k |-> "version", s |-> s]
X(s) == [k |-> "expr", s |-> s]

\* line.startsWith(s)
StartsWith(line, s) == Len(line) > 0 /\ line[1] = L(s)

\* line.replace(s, "").trim() of a line that starts with s
Rest(line) == SubSeq(line, 2, Len(line))

\* The text a lexeme matched by (\w+) or (\d+) captures.
Captured(x) == IF x.k = "num" THEN ToString(x.n) ELSE x.s
IsWord(x)   == x.k \in {"word", "num"}

\* actionsStr.split(","): the parts between the commas.
RECURSIVE Split(_)
Split(str) ==
    IF \A i \in 1..Len(str) : str[i] # L(",")
    THEN <<str>>
    ELSE LET c == CHOOSE i \in 1..Len(str) :
                      /\ str[i] = L(",")
                      /\ \A j \in 1..(i - 1) : str[j] # L(",")
         IN  <<SubSeq(str, 1, c - 1)>> \o Split(SubSeq(str, c + 1, Len(str)))

\* part.match(/name\(param=(\w+)\)/): the positions where the pattern matches.
Matches(part, name, param) ==
    {i \in 1..(Len(part) - 3) :
        /\ part[i] = L(name)
        /\ part[i + 1] = L(param)
        /\ IsWord(part[i + 2])
        /\ part[i + 3] = L(")")}

\* part.match(/tag\(key=(\w+),val=(\w+)\)/)
TagMatches(part) ==
    {i \in 1..(Len(part) - 6) :
        /\ part[i] = L("tag(")
        /\ part[i + 1] = L("key=")
        /\ IsWord(part[i + 2])
        /\ part[i + 3] = L(",")
        /\ part[i + 4] = L("val=")
        /\ IsWord(part[i + 5])
        /\ part[i + 6] = L(")")}

Leftmost(S) == CHOOSE i \in S : \A j \in S : i <= j

\* The body of the for loop of parseActions: what one part pushes.
ParsePart(part) ==
    IF part = <<W("accept")>> THEN <<Accept>>
    ELSE IF part = <<W("append_ledger")>> THEN <<AppendLedger>>
    ELSE IF StartsWith(part, "hold(")
    THEN LET m == {i \in Matches(part, "hold(", "hours=") : part[i + 2].k = "num"}
         IN  IF m = {} THEN <<>> ELSE <<Hold(part[Leftmost(m) + 2].n)>>
    ELSE IF StartsWith(part, "terminate(")
    THEN LET m == Matches(part, "terminate(", "reason=")
         IN  IF m = {} THEN <<>> ELSE <<Terminate(Captured(part[Leftmost(m) + 2]))>>
    ELSE IF StartsWith(part, "notify(")
    THEN LET m == Matches(part, "notify(", "role=")
         IN  IF m = {} THEN <<>> ELSE <<Notify(Captured(part[Leftmost(m) + 2]))>>
    ELSE IF StartsWith(part, "tag(")
    THEN LET m == TagMatches(part)
         IN  IF m = {} THEN <<>>
             ELSE <<Tag(Captured(part[Leftmost(m) + 2]),
                        Captured(part[Leftmost(m) + 5]))>>
    ELSE IF StartsWith(part, "emit(")
    THEN LET m == Matches(part, "emit(", "event=")
         IN  IF m = {} THEN <<>> ELSE <<Emit(Captured(part[Leftmost(m) + 2]))>>
    ELSE <<>>

RECURSIVE ParseParts(_)
ParseParts(parts) ==
    IF parts = <<>> THEN <<>>
    ELSE ParsePart(Head(parts)) \o ParseParts(Tail(parts))

\* parseActions
parseActions(actionsStr) == ParseParts(Split(actionsStr))

\* The blocks parseTriageBlocks starts from.
EmptyBlocks ==
    [ok |-> [condition |-> <<>>, actions |-> <<>>],
     doubt |-> [condition |-> <<>>, actions |-> <<>>],
     not |-> [condition |-> <<>>, actions |-> <<>>]]

NoBlock == "null"

\* The for loop of parseTriageBlocks from line i on.
RECURSIVE TriageLoop(_, _, _, _, _)
TriageLoop(lines, i, blocks, currentBlock, expectingActions) ==
    IF i > Len(lines) THEN blocks
    ELSE LET line == lines[i]
         IN  IF StartsWith(line, "if ok:")
             THEN TriageLoop(lines, i + 1,
                             [blocks EXCEPT !.ok.condition = Rest(line)], "ok", TRUE)
             ELSE IF StartsWith(line, "if doubt:")
             THEN TriageLoop(lines, i + 1,
                             [blocks EXCEPT !.doubt.condition = Rest(line)], "doubt", TRUE)
             ELSE IF StartsWith(line, "if not:")
             THEN TriageLoop(lines, i + 1,
                             [blocks EXCEPT !["not"].condition = Rest(line)], "not", TRUE)
             ELSE IF StartsWith(line, "then:") /\ currentBlock # NoBlock /\ expectingActions
             THEN TriageLoop(lines, i + 1,
                             [blocks EXCEPT ![currentBlock].actions = parseActions(Rest(line))],
                             currentBlock, FALSE)
             ELSE TriageLoop(lines, i + 1, blocks, currentBlock, expectingActions)

\* parseTriageBlocks
parseTriageBlocks(lines) == TriageLoop(lines, 1, EmptyBlocks, NoBlock, FALSE)

\* lines[0].match(/^law\s+([\w_-]+):([\d.]+):$/)
HeaderMatch(line) ==
    /\ Len(line) = 5
    /\ line[1] = L("law ")
    /\ IsWord(line[2])
    /\ line[3] = L(":")
    /\ line[4].k \in {"version", "num"}
    /\ line[5] = L(":")

\* lines.find(l => l.startsWith(s)): the index of the first such line, 0 for
\* undefined.
FindLine(lines, s) ==
    IF \E i \in 1..Len(lines) : StartsWith(lines[i], s)
    THEN Leftmost({i \in 1..Len(lines) : StartsWith(lines[i], s)})
    ELSE 0

ParseError(message) == [status |-> "error", message |-> message]

\* parseLawFile: the LawDefinition it returns or the Error it throws.
parseLawFile(text) ==
    LET lines == SelectSeq(text, LAMBDA l : Len(l) > 0 /\ ~StartsWith(l, "#"))
    IN  IF Len(lines) = 0 THEN ParseError("Empty law file")
        ELSE IF ~HeaderMatch(lines[1]) THEN ParseError("Invalid law header")
        ELSE IF FindLine(lines, "scope:") = 0 THEN ParseError("Missing scope declaration")
        ELSE IF FindLine(lines, "clock:") = 0 THEN ParseError("Missing clock declaration")
        ELSE [status |-> "ok",
              law |-> [id |-> Captured(lines[1][2]) \o ":" \o Captured(lines[1][4]),
                       version |-> Captured(lines[1][4]),
                       scope |-> Rest(lines[FindLine(lines, "scope:")]),
                       clock |-> Rest(lines[FindLine(lines, "clock:")]),
                       triage |-> parseTriageBlocks(lines)]]

\* Action tokens a `then:` line may carry: the seven of the grammar, a name
\* outside it and a hold whose parameter is no number.
ActionTokens ==
    {<<W("accept")>>,
     <<W("append_ledger")>>,
     <<L("hold("), L("hours="), N(24), L(")")>>,
     <<L("terminate("), L("reason="), W("deadline_passed"), L(")")>>,
     <<L("notify("), L("role="), W("ops"), L(")")>>,
     <<L("tag("), L("key="), W("status"), L(","), L("val="), W("accepted"), L(")")>>,
     <<L("emit("), L("event="), W("deadline_missed"), L(")")>>,
     <<W("escalate")>>,
     <<L("hold("), L("hours="), W("soon"), L(")")>>}

MaxTokens == 2     \* tokens of a drawn action list

\* tokens joined with ","
RECURSIVE Join(_)
Join(tokens) ==
    IF tokens = <<>> THEN <<>>
    ELSE IF Len(tokens) = 1 THEN tokens[1]
    ELSE tokens[1] \o <<L(",")>> \o Join(Tail(tokens))

\* The action lists of the README law text.
ReadmeOkText ==
    Join(<<<<W("accept")>>,
           <<L("tag("), L("key="), W("status"), L(","), L("val="), W("accepted"), L(")")>>,
           <<W("append_ledger")>>>>)
ReadmeDoubtText ==
    Join(<<<<L("hold("), L("hours="), N(24), L(")")>>,
           <<L("notify("), L("role="), W("ops"), L(")")>>,
           <<W("append_ledger")>>>>)
ReadmeNotText ==
    Join(<<<<L("terminate("), L("reason="), W("deadline_passed"), L(")")>>,
           <<W("append_ledger")>>>>)

ActionTexts ==
    {Join(tokens) : tokens \in UNION {[1..n -> ActionTokens] : n \in 0..MaxTokens}}
    \cup {ReadmeOkText}

\* The lines a text gives to one branch: none, the condition line alone,
\* the condition line and its action line, or the two in the wrong order.
BranchShapes == {"absent", "if", "if-then", "then-if"}

BranchLines(branch, shape, condition, actionText) ==
    LET ifLine   == <<L("if " \o branch \o ":"), X(condition)>>
        thenLine == <<L("then:")>> \o actionText
    IN  CASE shape = "absent"  -> <<>>
          [] shape = "if"      -> <<ifLine>>
          [] shape = "if-then" -> <<ifLine, thenLine>>
          [] shape = "then-if" -> <<thenLine, ifLine>>

\* A law text: header, scope and clock lines (each possibly wrong or left
\* out), a blank line, a comment, and the lines of the three branches.
MakeLawText(header, scope, clock, ok, doubt, not, okActions) ==
    (IF header THEN <<<<L("law "), W("midnight_deadline"), L(":"), V("1.0.0"), L(":")>>>>
               ELSE <<<<L("law "), W("midnight_deadline")>>>>)
    \o (IF scope THEN <<<<L("scope:"), W("deliverable")>>>> ELSE <<>>)
    \o (IF clock THEN <<<<L("clock:"), W("midnight"), W("Europe/Paris")>>>> ELSE <<>>)
    \o << <<>>, <<L("#"), W("triage")>> >>
    \o BranchLines("ok", ok, "accepted == true OR approvals.count >= quorum", okActions)
    \o BranchLines("doubt", doubt,
                   "now >= deadline_at AND accepted == false AND evidence.missing == true",
                   ReadmeDoubtText)
    \o BranchLines("not", not, "now >= deadline_at AND accepted == false", ReadmeNotText)

LawTexts ==
    {MakeLawText(h, sc, ck, ok, doubt, not, a) :
        h \in BOOLEAN, sc \in BOOLEAN, ck \in BOOLEAN,
        ok \in BranchShapes, doubt \in BranchShapes, not \in BranchShapes,
        a \in ActionTexts}
    \cup {<<>>, << <<>>, <<L("#"), W("triage")>> >>}

InitParse ==
    /\ lawText \in LawTexts
    /\ parsed = NoParse
    /\ SpanIdle /\ MetricsIdle /\ AuthIdle
    /\ TriageIdle /\ ComposeIdle /\ RulerIdle /\ ClockIdle

ParseLawFileCall ==
    /\ parsed = NoParse
    /\ parsed' = parseLawFile(lawText)
    /\ UNCHANGED <<lawText, spanVars, metricsVars, authVars, coreVars>>

NextParse == ParseLawFileCall

SpecParse == InitParse /\ [][NextParse]_vars

\* C24: a law text in which a branch is missing, or in which the condition
\* line of a branch is not immediately followed by an action line, is
\* rejected: parseLawFile returns a LawDefinition only for a text with the
\* three branches, each `if` line followed by its `then:` line.
Significant == SelectSeq(lawText, LAMBDA l : Len(l) > 0 /\ l[1] # L("#"))
BranchComplete(branch) ==
    \E i \in 1..(Len(Significant) - 1) :
        /\ Significant[i][1] = L("if " \o branch \o ":")
        /\ Significant[i + 1][1] = L("then:")
C24_IncompleteLawRejected ==
    parsed.status = "ok" =>
        BranchComplete("ok") /\ BranchComplete("doubt") /\ BranchComplete("not")

\* C25: the actions parsed from a `then:` line are the actions of its
\* recognized tokens, in the written order, each with its parameters;
\* tokens outside the grammar give nothing. Tokens are the stretches of the
\* line between commas that stand outside parentheses, so that
\* tag(key=K,val=V) is one token and gives a tag action with key K, value V.
Opens(x) ==
    x \in {L("hold("), L("terminate("), L("notify("), L("tag("), L("emit(")}
RECURSIVE TokensOf(_, _, _)
TokensOf(str, depth, current) ==
    IF str = <<>> THEN <<current>>
    ELSE LET x == Head(str)
         IN  IF x = L(",") /\ depth = 0
             THEN <<current>> \o TokensOf(Tail(str), 0, <<>>)
             ELSE TokensOf(Tail(str),
                           IF Opens(x) THEN depth + 1
                           ELSE IF x = L(")") /\ depth > 0 THEN depth - 1
                           ELSE depth,
                           Append(current, x))
Meaning(token) ==
    IF token = <<W("accept")>> THEN <<Accept>>
    ELSE IF token = <<W("append_ledger")>> THEN <<AppendLedger>>
    ELSE IF Len(token) = 4 /\ token[2] \in {L("hours="), L("reason="), L("role="), L("event=")}
            /\ token[4] = L(")")
    THEN CASE token[1] = L("hold(") /\ token[2] = L("hours=") /\ token[3].k = "num"
                 -> <<[type |-> "hold", hours |-> token[3].n]>>
           [] token[1] = L("terminate(") /\ token[2] = L("reason=") /\ IsWord(token[3])
                 -> <<[type |-> "terminate", reason |-> Captured(token[3])]>>
           [] token[1] = L("notify(") /\ token[2] = L("role=") /\ IsWord(token[3])
                 -> <<[type |-> "notify", role |-> Captured(token[3])]>>
           [] token[1] = L("emit(") /\ token[2] = L("event=") /\ IsWord(token[3])
                 -> <<[type |-> "emit", event |-> Captured(token[3])]>>
           [] OTHER -> <<>>
    ELSE IF Len(token) = 7 /\ token[1] = L("tag(") /\ token[2] = L("key=")
            /\ IsWord(token[3]) /\ token[4] = L(",") /\ token[5] = L("val=")
            /\ IsWord(token[6]) /\ token[7] = L(")")
    THEN <<[type |-> "tag", key |-> Captured(token[3]), val |-> Captured(token[6])]>>
    ELSE <<>>
RECURSIVE Meanings(_)
Meanings(tokens) ==
    IF tokens = <<>> THEN <<>> ELSE Meaning(Head(tokens)) \o Meanings(Tail(tokens))
C25_ActionListParsed ==
    parsed.status = "ok" =>
        \A branch \in {"ok", "doubt", "not"} :
            \A i \in 1..(Len(Significant) - 1) :
                ( /\ Significant[i][1] = L("if " \o branch \o ":")
                  /\ Significant[i + 1][1] = L("then:") )
                => parsed.law.triage[branch].actions =
                       Meanings(TokensOf(Rest(Significant[i + 1]), 0, <<>>))

(***************************************************************************)
(* GovernanceMetrics (SpecMetrics).  A collector is its three Maps, each a *)
(* function from the keys set so far.  Labels are the entries of the       *)
(* labels object in their listed order; values are whole milliseconds.     *)
(***************************************************************************)
\* labelStr of buildKey: the entries as k="v", joined with ",".
RECURSIVE LabelStr(_)
LabelStr(labels) ==
    IF Len(labels) = 1
    THEN labels[1][1] \o "=\"" \o labels[1][2] \o "\""
    ELSE labels[1][1] \o "=\"" \o labels[1][2] \o "\"," \o LabelStr(Tail(labels))

\* buildKey
buildKey(name, labels) ==
    IF Len(labels) = 0 THEN name ELSE name \o "{" \o LabelStr(labels) \o "}"

\* map.set(key, value)
MapSet(map, key, value) ==
    [k \in DOMAIN map \cup {key} |-> IF k = key THEN value ELSE map[k]]

\* incrementCounter
incrementCounter(m, name, labels) ==
    LET key     == buildKey(name, labels)
        current == IF key \in DOMAIN m.counters THEN m.counters[key] ELSE 0
    IN  [m EXCEPT !.counters = MapSet(m.counters, key, current + 1)]

\* setGauge
setGauge(m, name, value, labels) ==
    [m EXCEPT !.gauges = MapSet(m.gauges, buildKey(name, labels), value)]

\* recordHistogram
recordHistogram(m, name, value, labels) ==
    LET key    == buildKey(name, labels)
        values == IF key \in DOMAIN m.histograms THEN m.histograms[key] ELSE <<>>
    IN  [m EXCEPT !.histograms = MapSet(m.histograms, key, Append(values, value))]

\* getCounter, getGauge
getCounter(m, name, labels) ==
    LET key == buildKey(name, labels)
    IN  IF key \in DOMAIN m.counters THEN m.counters[key] ELSE 0
getGauge(m, name, labels) ==
    LET key == buildKey(name, labels)
    IN  IF key \in DOMAIN m.gauges THEN m.gauges[key] ELSE 0

\* values.slice().sort((a, b) => a - b)
RECURSIVE Insert(_, _)
Insert(sorted, x) ==
    IF sorted = <<>> THEN <<x>>
    ELSE IF x < Head(sorted) THEN <<x>> \o sorted
    ELSE <<Head(sorted)>> \o Insert(Tail(sorted), x)
RECURSIVE Sort(_)
Sort(values) ==
    IF values = <<>> THEN <<>>
    ELSE Insert(Sort(SubSeq(values, 1, Len(values) - 1)), values[Len(values)])

RECURSIVE Sum(_)
Sum(values) == IF values = <<>> THEN 0 ELSE Head(values) + Sum(Tail(values))

\* Math.ceil(n * p) for p = pct / 100
CeilOf(n, pct) == (n * pct + 99) \div 100

\* percentile with Math.floor in the place of Math.ceil.
percentileFloor(sorted, pct) ==
    LET index == ((Len(sorted) * pct) \div 100) - 1
    IN  sorted[(IF index > 0 THEN index ELSE 0) + 1]

\* percentile(sorted, p): sorted[Math.max(0, index)], indices from 0.
percentile(sorted, pct) ==
    LET index == CeilOf(Len(sorted), pct) - 1
    IN  sorted[(IF index > 0 THEN index ELSE 0) + 1]

NoStats == [count |-> 0]

\* getHistogramStats: null (NoStats) without samples; avg is sum / count,
\* carried as the pair.
getHistogramStats(m, name, labels) ==
    LET key == buildKey(name, labels)
    IN  IF key \notin DOMAIN m.histograms THEN NoStats
        ELSE IF Len(m.histograms[key]) = 0 THEN NoStats
        ELSE LET values == m.histograms[key]
                 sorted == Sort(values)
             IN  [count |-> Len(values),
                  sum |-> Sum(values),
                  avg |-> <<Sum(values), Len(values)>>,
                  p50 |-> percentile(sorted, 50),
                  p95 |-> percentile(sorted, 95),
                  p99 |-> percentile(sorted, 99)]

\* The updates the schedulers of two tenants issue.
MaxUpdates == 4    \* updates applied to a collector
MaxSample  == 3    \* largest value set or recorded, in ms
Tenants    == {"voulezvous", "acme"}
LabelSets  == {<<<<"tenant_id", t>>>> : t \in Tenants}
\* The labels of decisions_total: the tenant alone, or triage and tenant as
\* the caller's object literal lists them, in either order.
CounterLabels ==
    LabelSets \cup {<<<<"triage", "ok">>, <<"tenant_id", "voulezvous">>>>,
                    <<<<"tenant_id", "voulezvous">>, <<"triage", "ok">>>>}

IncrementCounterOp(name, labels) ==
    [op |-> "incrementCounter", name |-> name, labels |-> labels]
SetGaugeOp(name, value, labels) ==
    [op |-> "setGauge", name |-> name, value |-> value, labels |-> labels]
RecordHistogramOp(name, value, labels) ==
    [op |-> "recordHistogram", name |-> name, value |-> value, labels |-> labels]

\* One update applied to a collector.
Apply(m, u) ==
    CASE u.op = "incrementCounter" -> incrementCounter(m, u.name, u.labels)
      [] u.op = "setGauge"         -> setGauge(m, u.name, u.value, u.labels)
      [] u.op = "recordHistogram"  -> recordHistogram(m, u.name, u.value, u.labels)

InitMetrics ==
    /\ MetricsIdle
    /\ SpanIdle /\ ParseIdle /\ AuthIdle
    /\ TriageIdle /\ ComposeIdle /\ RulerIdle /\ ClockIdle

\* An update reaches both collectors: the first applies it at once, the
\* second applies every two consecutive updates in the opposite order.
Deliver(u) ==
    /\ Len(issued) < MaxUpdates
    /\ issued' = Append(issued, u)
    /\ metrics' = Apply(metrics, u)
    /\ IF held = NoUpdate
       THEN held' = u /\ mirror' = mirror
       ELSE held' = NoUpdate /\ mirror' = Apply(Apply(mirror, u), held)
    /\ UNCHANGED <<spanVars, parseVars, authVars, coreVars>>

IncrementCounterCall ==
    \E labels \in CounterLabels :
        Deliver(IncrementCounterOp("decisions_total", labels))

SetGaugeCall ==
    \E value \in 1..MaxSample, labels \in LabelSets :
        Deliver(SetGaugeOp("clock_drift_ms", value, labels))

RecordHistogramCall ==
    \E value \in 1..MaxSample, labels \in LabelSets :
        Deliver(RecordHistogramOp("evaluation_time_ms", value, labels))

NextMetrics ==
    \/ IncrementCounterCall
    \/ SetGaugeCall
    \/ RecordHistogramCall

SpecMetrics == InitMetrics /\ [][NextMetrics]_vars

\* What the getters of a collector answer, for every series.
Observed(m) ==
    [labels \in LabelSets |->
        [counter |-> getCounter(m, "decisions_total", labels),
         gauge |-> getGauge(m, "clock_drift_ms", labels),
         stats |-> getHistogramStats(m, "evaluation_time_ms", labels)]]

\* C26: two updates applied in either order leave a collector with the same
\* observable values: whenever both collectors have applied the same updates
\* (the second with the latest two exchanged) their getters agree.
C26_UpdatesCommute ==
    [][ (held # NoUpdate /\ held' = NoUpdate /\ Observed(metrics) = Observed(mirror))
        => Observed(metrics') = Observed(mirror') ]_vars

\* C27: for a series with n >= 1 samples and p among 0.5, 0.95, 0.99 the
\* percentile reported is the sample of rank ceil(n * p) (at least 1, at
\* most n) among the samples in ascending order, whatever the order in which
\* they were recorded.
SamplesOf(m, labels) ==
    LET key == buildKey("evaluation_time_ms", labels)
    IN  IF key \in DOMAIN m.histograms THEN m.histograms[key] ELSE <<>>
RankOf(n, pct) ==
    LET c == CHOOSE c \in 0..n : 100 * c >= n * pct /\ 100 * (c - 1) < n * pct
    IN  IF c < 1 THEN 1 ELSE IF c > n THEN n ELSE c
NearestRank(samples, pct) ==
    CHOOSE v \in {samples[i] : i \in 1..Len(samples)} :
        /\ Cardinality({i \in 1..Len(samples) : samples[i] < v}) < RankOf(Len(samples), pct)
        /\ Cardinality({i \in 1..Len(samples) : samples[i] <= v}) >= RankOf(Len(samples), pct)
Percentiles(stats) == <<stats.p50, stats.p95, stats.p99>>
C27_NearestRankPercentiles ==
    \A labels \in LabelSets :
        LET samples == SamplesOf(metrics, labels)
            stats   == getHistogramStats(metrics, "evaluation_time_ms", labels)
        IN  Len(samples) > 0 =>
                /\ Percentiles(stats) = <<NearestRank(samples, 50),
                                          NearestRank(samples, 95),
                                          NearestRank(samples, 99)>>
                /\ held = NoUpdate =>
                      Percentiles(getHistogramStats(mirror, "evaluation_time_ms", labels))
                          = Percentiles(stats)
C27_Witness ==
    \E labels \in LabelSets :
        /\ SamplesOf(metrics, labels) = <<3, 1, 2, 1>>
        /\ SamplesOf(mirror, labels) = <<1, 3, 1, 2>>
        /\ Percentiles(getHistogramStats(metrics, "evaluation_time_ms", labels)) = <<1, 3, 3>>

(***************************************************************************)
(* The auth middleware (SpecAuth).  A pathname is the sequence of its      *)
(* separators and segments ("/dashboard/acme" is <<"/", "dashboard", "/",  *)
(* "acme">>); startsWith is the prefix relation.  The answer of the        *)
(* validation endpoint to the fetch is part of the request drawn.          *)
(***************************************************************************)
publicPaths == << <<"/">>, <<"/", "auth">>, <<"/", "api", "/", "public">> >>

\* pathname.startsWith(path)
PathStartsWith(pathname, path) ==
    /\ Len(path) <= Len(pathname)
    /\ SubSeq(pathname, 1, Len(path)) = path

isPublicPath(pathname) ==
    \E n \in 1..Len(publicPaths) : PathStartsWith(pathname, publicPaths[n])

\* header?.replace('ApiKey ', '') || cookie?.value; "" stands for undefined.
\* A header is its scheme and its credential.
ApiKeyOf(req) ==
    LET fromHeader == IF req.authorization = <<>> THEN ""
                      ELSE IF req.authorization[1] = "ApiKey " THEN req.authorization[2]
                      ELSE req.authorization[1] \o req.authorization[2]
    IN  IF fromHeader # "" THEN fromHeader ELSE req.cookie

\* pathname.match(/\/dashboard\/([^\/]+)/): the positions of the match.
TeamMatches(pathname) ==
    {i \in 1..(Len(pathname) - 3) :
        /\ pathname[i] = "/"
        /\ pathname[i + 1] = "dashboard"
        /\ pathname[i + 2] = "/"
        /\ pathname[i + 3] # "/"}

LoginPath == <<"/", "auth", "/", "login">>

Redirect(pathname, from, cookieDeleted) ==
    [kind |-> "redirect", pathname |-> pathname, from |-> from,
     cookieDeleted |-> cookieDeleted]
PassThrough(headers) == [kind |-> "next", headers |-> headers]

\* middleware: the response it returns. req.validation is what the fetch of
\* /auth/validate gives for the key: a wallet context, a response that is
\* not ok, or a rejection.
middleware(req) ==
    IF isPublicPath(req.pathname) THEN PassThrough(<<>>)
    ELSE IF ApiKeyOf(req) = "" THEN Redirect(LoginPath, req.pathname, FALSE)
    ELSE IF req.validation.kind # "ok" THEN Redirect(LoginPath, req.pathname, TRUE)
    ELSE LET wallet == req.validation
             m      == TeamMatches(req.pathname)
         IN  IF m # {} /\ req.pathname[Leftmost(m) + 3] # wallet.tenant_id
             THEN Redirect(<<"/", "dashboard", "/", wallet.tenant_id>>, <<>>, FALSE)
             ELSE PassThrough(<<<<"x-wallet-id", wallet.wallet_id>>,
                                <<"x-tenant-id", wallet.tenant_id>>>>)

Pathnames ==
    {<<"/">>, <<"/", "auth", "/", "login">>, <<"/", "api", "/", "public", "/", "health">>,
     <<"/", "dashboard">>, <<"/", "dashboard", "/", "voulezvous">>,
     <<"/", "dashboard", "/", "acme">>, <<"/", "api", "/", "governance">>,
     <<"/", "settings">>}

Validations ==
    {[kind |-> "ok", wallet_id |-> "w1", tenant_id |-> "voulezvous"],
     [kind |-> "not_ok"], [kind |-> "rejected"]}

Requests ==
    [pathname : Pathnames,
     authorization : {<<>>, <<"ApiKey ", "k1">>, <<"ApiKey ", "">>, <<"Bearer ", "k1">>},
     cookie : {"", "k1"},
     validation : Validations]

InitAuth ==
    /\ request \in Requests
    /\ response = NoResponse
    /\ SpanIdle /\ ParseIdle /\ MetricsIdle
    /\ TriageIdle /\ ComposeIdle /\ RulerIdle /\ ClockIdle

MiddlewareCall ==
    /\ response = NoResponse
    /\ response' = middleware(request)
    /\ UNCHANGED <<request, spanVars, parseVars, metricsVars, coreVars>>

NextAuth == MiddlewareCall

SpecAuth == InitAuth /\ [][NextAuth]_vars

\* C30: a request to a path that is neither the landing page, nor an /auth
\* page, nor an /api/public route, and that carries no API key or a key the
\* validation endpoint does not accept, is redirected to /auth/login and not
\* passed through.
Protected ==
    /\ request.pathname # <<"/">>
    /\ ~PathStartsWith(request.pathname, <<"/", "auth">>)
    /\ ~PathStartsWith(request.pathname, <<"/", "api", "/", "public">>)
Unauthenticated ==
    \/ request.authorization = <<>> /\ request.cookie = ""
    \/ request.validation.kind # "ok"
C30_ProtectedRoutesGuarded ==
    (response # NoResponse /\ Protected /\ Unauthenticated) =>
        response.kind = "redirect" /\ response.pathname = LoginPath

\* C31: an instance owns a single deadline-wait: at most one timer is armed,
\* and it is the one whose handle schedulerId holds (the one stop() clears).
C31_SingleArmedTimer ==
    /\ Cardinality(timers) <= 1
    /\ timers \subseteq {schedulerId}

\* C32: the instance does not report itself stopped (running = false, so that
\* start() would arm a new wait) while one of its runs is in progress.
C32_StoppedOnlyAfterRuns ==
    ~running => InFlight = {}

\* The action events the ledger holds for the decision span id, in order.
EventSeqOf(id) ==
    SelectSeq(ledger, LAMBDA e : IsActionEvent(e) /\ e.links.decision_span = id)
Stored(id) == \E d \in DOMAIN decisionStore : decisionStore[d].id = id

\* C33: a decision with actions a1..ak that is stored has exactly k action
\* events in the ledger, one per action in the order a1..ak, all appended
\* before it was stored; an action event is appended only as the next action
\* of a decision being executed; when an action fails the run abandons the
\* decision, which is not stored.
C33_EventsThenDecisionSpan ==
    /\ [](\A d \in DOMAIN decisionStore :
            LET events == EventSeqOf(decisionStore[d].id)
            IN  [n \in 1..Len(events) |-> actionToObligation(events[n].metadata)]
                    = decisionStore[d].law.obligations)
    /\ [][\A rid \in DOMAIN runs :
            (Steps(rid) /\ ledger' # ledger /\ IsActionEvent(ledger'[Len(ledger')])) =>
               LET r == runs[rid]
               IN  /\ r.pc = "executeAction"
                   /\ Appends(ActionEvent(r.actions[r.k], r.spans[r.i], r.decision.id))
                   /\ r.k = Len(EventSeqOf(r.decision.id)) + 1
                   /\ ~Stored(r.decision.id)
                   /\ decisionStore' = decisionStore]_vars
    /\ [][\A rid \in DOMAIN runs :
            (Steps(rid) /\ runs[rid].pc = "executeAction" /\ ledger' = ledger) =>
               /\ decisionStore' = decisionStore
               /\ runs'[rid].pc = "handleError"
               /\ runs'[rid].decision = NoDecision]_vars
    /\ [][\A rid \in DOMAIN runs :
            (Steps(rid) /\ decisionStore' # decisionStore) =>
               /\ runs[rid].pc = "storeDecisionSpan"
               /\ decisionStore' = Append(decisionStore, runs[rid].decision)
               /\ Len(EventSeqOf(runs[rid].decision.id)) = Len(runs[rid].actions)
               /\ ledger' = ledger]_vars
\* C33 witness: one decision was abandoned after its first action (its second
\* failed) and is not stored; a later one is stored with both its events.
C33_Witness ==
    /\ \E d \in DOMAIN decisionStore :
          /\ Len(decisionStore[d].law.obligations) = 2
          /\ Len(EventSeqOf(decisionStore[d].id)) = 2
    /\ \E id \in 1..nextUuid :
          /\ Len(EventSeqOf(id)) = 1
          /\ ~Stored(id)
          /\ \A rid \in DOMAIN runs : runs[rid].decision.id # id

\* The first configured law, in configuration order, that is a candidate for
\* the span.
FirstCandidate ==
    LET hits == {n \in 1..Len(configLaws) : Candidate(configLaws[n])}
    IN  configLaws[CHOOSE n \in hits : \A m \in hits : n <= m]
BranchActions(l) ==
    {l.triage.ok.actions, l.triage.doubt.actions, l.triage["not"].actions}

DecidedObligations ==
    DecisionFor(spanIn, processed.law, processed.result, 1).law.obligations

\* C35: the obligations of the decision span of a decided span contain
\* append_ledger exactly once, as the last element, whatever the action list
\* of the selected branch.
C35_ObligationsEndWithAppendLedger ==
    processed.status = "decided" =>
        /\ Len(DecidedObligations) > 0
        /\ DecidedObligations[Len(DecidedObligations)] = "append_ledger"
        /\ Cardinality({n \in 1..Len(DecidedObligations) :
                           DecidedObligations[n] = "append_ledger"}) = 1

\* The step leaves the events already in the ledger as they are.
LedgerGrows ==
    /\ Len(ledger') >= Len(ledger)
    /\ SubSeq(ledger', 1, Len(ledger)) = ledger
LedgerAppendOnly == [][LedgerGrows]_vars

\* C36: the ledger only grows, and the step that ends the handling of an
\* incident a run raised (clock_drift, poison_input, scheduler_failure)
\* appends the one event of that incident.
C36_IncidentsRecorded ==
    [][/\ LedgerGrows
       /\ \A rid \in DOMAIN runs :
             (Steps(rid) /\ runs[rid].pc = "handleError") =>
                 Appends(IncidentEvent(runs[rid].error))]_vars

\* C37: every event in the ledger, action event or incident event, carries
\* who.id and who.role together with what, why and ts.
C37_WhoOnEveryEvent ==
    \A n \in DOMAIN ledger :
        /\ {"who", "what", "why", "ts"} \subseteq DOMAIN ledger[n]
        /\ {"id", "role"} \subseteq DOMAIN ledger[n].who
        /\ ledger[n].who.id # ""
        /\ ledger[n].who.role # ""

\* The decision span d was caused by the input span s and continues its trace.
CausedBy(d, s) == d.links.caused_by = s.id /\ d.trace_id = s.trace_id
\* The ledger event e is an effect of the decision span d.
EffectOf(e, d) == e.links.decision_span = d.id /\ e.links.trace_id = d.trace_id

\* C38: the decision span a run holds for a resource is caused by the input
\* span it evaluated and has its trace_id; the decision span stored is that
\* one; every action event appended links to the decision span being executed
\* and has its trace_id; so every action event of a stored decision links to
\* it with the trace_id of the input span.
C38_Traceability ==
    /\ [](\A rid \in DOMAIN runs :
            runs[rid].decision # NoDecision =>
                CausedBy(runs[rid].decision, runs[rid].spans[runs[rid].i]))
    /\ [](\A d \in DOMAIN decisionStore :
            /\ \E s \in ActiveSpans : CausedBy(decisionStore[d], s)
            /\ \A n \in ActionEventsOf(decisionStore[d].id) :
                  EffectOf(ledger[n], decisionStore[d]))
    /\ [][\A rid \in DOMAIN runs :
            /\ (Steps(rid) /\ decisionStore' # decisionStore) =>
                  /\ decisionStore' = Append(decisionStore, runs[rid].decision)
                  /\ CausedBy(runs[rid].decision, runs[rid].spans[runs[rid].i])
            /\ (Steps(rid) /\ ledger' # ledger /\ IsActionEvent(ledger'[Len(ledger')])) =>
                  /\ runs[rid].decision # NoDecision
                  /\ EffectOf(ledger'[Len(ledger')], runs[rid].decision)
                  /\ ledger'[Len(ledger')].links.trace_id
                        = runs[rid].spans[runs[rid].i].trace_id]_vars
\* C38 witness: a stored decision of the overdue deliverable with its action
\* events in the ledger.
C38_Witness ==
    \E d \in DOMAIN decisionStore :
        /\ CausedBy(decisionStore[d], OverdueSpan)
        /\ ActionEventsOf(decisionStore[d].id) # {}
        /\ \A n \in ActionEventsOf(decisionStore[d].id) :
              ledger[n].links = [decision_span |-> decisionStore[d].id,
                                 trace_id |-> OverdueSpan.trace_id]

\* Some layer of the map proposes a terminate (a deny).
DenyProposed ==
    \E layer \in DOMAIN actionsByLayer :
        \E i \in 1..Len(actionsByLayer[layer]) :
            actionsByLayer[layer][i].type = "terminate"

\* C39: when any layer proposes terminate, the state transition in the
\* output of composeActions is a terminate.
C39_DenyOverrides ==
    (Composed /\ DenyProposed) =>
        LET trans == SelectSeq(composed, IsTransition)
        IN  /\ Len(trans) = 1
            /\ trans[1].type = "terminate"

\* Two label lists hold the same key/value pairs.
SameLabels(a, b) ==
    {a[i] : i \in 1..Len(a)} = {b[i] : i \in 1..Len(b)}
\* The updates issued so far to the series of a metric with these pairs.
IssuedTo(opName, labels) ==
    SelectSeq(issued, LAMBDA u : u.op = opName /\ SameLabels(u.labels, labels))

\* C40: a series is addressed by its name and its set of labels: the counter
\* read with a label list counts the increments issued with the same pairs,
\* in whatever order they were listed, and no others; the gauge and the
\* samples of a series are those of the updates issued with the same pairs.
C40_KeyedByLabelSet ==
    /\ \A labels \in CounterLabels :
          getCounter(metrics, "decisions_total", labels)
              = Len(IssuedTo("incrementCounter", labels))
    /\ \A labels \in LabelSets :
          LET sets    == IssuedTo("setGauge", labels)
              records == IssuedTo("recordHistogram", labels)
          IN  /\ getGauge(metrics, "clock_drift_ms", labels)
                    = IF sets = <<>> THEN 0 ELSE sets[Len(sets)].value
              /\ SamplesOf(metrics, labels)
                    = [n \in 1..Len(records) |-> records[n].value]
====
